---------------------------- MODULE Spec2Model ----------------------------
(***************************************************************************)
(* State-machine model of the code componentization system:                *)
(*   runtimeTracer.js      traceFn / clearTraceLog                         *)
(*   relationshipUpdater   updateDynamicRelationships / startPeriodic...   *)
(*   codeLoader            resolveDependencies / topologicalSort           *)
(*   codeClusterer.js      clusterUnits                                    *)
(*   db.js                 putUnitsChunked and the keyed object stores     *)
(*   codeIngester / workerUtil / staticAnalyzerWorker   ingestCode         *)
(* Each component has its own specification (SpecTracer, SpecUpdater, ...) *)
(* over the same variables; a specification leaves the variables of the    *)
(* other components unchanged.                                             *)
(***************************************************************************)
EXTENDS Integers, Sequences, FiniteSets, TLC

VARIABLES
    traceLog,     \* runtimeTracer.js: let traceLog = []
    callStack,    \* runtimeTracer.js: let callStack = []
    nextCallId,   \* runtimeTracer.js: let nextCallId = 0
    calls,        \* one record per invocation of a traced wrapper (its position)
    jsStack,      \* the traced invocations whose synchronous part is running
    store,        \* db.js: object store 'codeUnits', unit id -> unit record
    cycles,       \* one record per started run of updateDynamicRelationships
    timer,        \* startPeriodicUpdates: "off", "on" (interval set), "stopped"
    loader,       \* codeLoader.js: position and locals of one load
    clusterer,    \* codeClusterer.js: position and locals of clusterUnits, its past runs
    ingest,       \* codeIngester.js: position and locals of ingestCode, its past runs
    depStore,     \* db.js: object store 'dependencies', edge id -> edge record
    wrap,         \* runtimeTracer.js: the callables installed by traceFn
    api,          \* aiInterface.js: pendingUpdates and the request being handled
    scan,         \* staticAnalyzerWorker.js: the chunk under analysis and its result
    batch         \* db.js: position and locals of one putUnitsChunked call

tracerVars == <<traceLog, callStack, nextCallId, calls, jsStack>>
updaterVars == <<cycles, timer>>
ingestVars == <<ingest, depStore>>
extraVars == <<wrap, api, scan, batch>>
restVars == <<loader, clusterer, ingest, depStore, wrap, api, scan, batch>>

vars == <<traceLog, callStack, nextCallId, calls, jsStack, store, cycles, timer, loader,
          clusterer, ingest, depStore, wrap, api, scan, batch>>

----------------------------------------------------------------------------
(* Bounds of the model *)

MaxCalls == 3          \* traced invocations in one behaviour of SpecTracer
MaxUpdCalls == 3       \* traced invocations in one behaviour of SpecUpdater
MaxCycles == 2         \* updater cycles started in one behaviour

----------------------------------------------------------------------------
(* Values *)

NoCall == -1           \* parentId null (no active traced call)
NoUnit == "null"       \* unitId null (traceAllGlobal: unitIdMap[key] || null)

TracerUnits == {"A", "B", NoUnit}

\* an object store holding no record
EmptyStore == [k \in {} |-> k]

\* codeLoader.js before any load is started
LoaderIdle == [pc |-> "idle", ids |-> <<>>, required |-> <<>>, processed |-> {},
               result |-> <<>>]

\* codeClusterer.js before clusterUnits is called
ClustererIdle == [pc |-> "idle", max |-> 0, clusters |-> <<>>, updatedUnits |-> <<>>,
                  history |-> <<>>]

\* codeIngester.js before ingestCode is called
IngestIdle == [pc |-> "idle", inScope |-> FALSE, chunks |-> <<>>, i |-> 0, inbox |-> <<>>,
               allUnits |-> <<>>, allDependencies |-> <<>>, extracted |-> <<>>,
               unitsCount |-> 0, sources |-> <<>>]

\* no callable installed, no request handled, no chunk analysed, no batch put
WrapIdle == [fns |-> <<>>, wraps |-> 0,
             inv |-> [phase |-> "none", key |-> "none", traced |-> FALSE, left |-> 0,
                      logAt |-> 0, depthAt |-> 0]]
ApiIdle == [handled |-> 0, pendingUpdates |-> [k \in {} |-> k],
            request |-> [command |-> "none"],
            response |-> [settled |-> "none"]]
ScanIdle == [pc |-> "idle", code |-> <<>>, lineOffset |-> 0, i |-> 0,
             inSingleLineComment |-> FALSE, inMultiLineComment |-> FALSE,
             inString |-> FALSE, stringChar |-> "", units |-> <<>>,
             dependencies |-> <<>>]
BatchIdle == [pc |-> "idle", units |-> <<>>, chunkSize |-> 1, i |-> 0,
              queued |-> <<>>, failedAt |-> -1]

ExtraIdle ==
    /\ wrap = WrapIdle
    /\ api = ApiIdle
    /\ scan = ScanIdle
    /\ batch = BatchIdle

\* the components a specification does not exercise stay as constructed
RestIdle ==
    /\ loader = LoaderIdle
    /\ clusterer = ClustererIdle
    /\ ingest = IngestIdle
    /\ depStore = EmptyStore
    /\ ExtraIdle

\* `call_${nextCallId++}`: the id is the counter value it was made from
generateUniqueCallId(n) == n

----------------------------------------------------------------------------
(* runtimeTracer.js : traceFn *)

Last(s) == s[Len(s)]

\* Array.prototype.pop: removes the last element, a no-op on an empty array
ArrayPop(s) == IF Len(s) = 0 THEN s ELSE SubSeq(s, 1, Len(s) - 1)

StartEvent(callId, parentId, unitId, inv) ==
    [type |-> "callStart", id |-> callId, parentId |-> parentId,
     unitId |-> unitId, async |-> FALSE, inv |-> inv]

EndEvent(callId, isAsync, inv) ==
    [type |-> "callEnd", id |-> callId, parentId |-> NoCall,
     unitId |-> NoUnit, async |-> isAsync, inv |-> inv]

ErrorEvent(callId, isAsync, inv) ==
    [type |-> "callError", id |-> callId, parentId |-> NoCall,
     unitId |-> NoUnit, async |-> isAsync, inv |-> inv]

Running(i)  == calls[i].st = "running"
Pending(i)  == calls[i].st = "pending"
Completed(i) == calls[i].st \in {"returned", "threw", "resolved", "rejected"}

InFlight == {i \in 1..Len(calls) : Running(i) \/ Pending(i)}

\* no parent is ever recorded
ParentCallIdNone(stack) == NoCall

\* the parent is taken from the bottom of the stack instead of its top
ParentCallIdOutermost(stack) == IF Len(stack) > 0 THEN stack[1].id ELSE NoCall

\* callStack.length > 0 ? callStack[callStack.length - 1].id : null
ParentCallId(stack) == IF Len(stack) > 0 THEN Last(stack).id ELSE NoCall

\* The wrapper up to fn.apply: new id, parent from the stack top, push, callStart
Invoke(u, maxCalls) ==
    /\ Len(calls) < maxCalls
    /\ LET callId == generateUniqueCallId(nextCallId)
           parent == ParentCallId(callStack)
           inv    == Len(calls) + 1
       IN /\ nextCallId' = nextCallId + 1
          /\ callStack' = Append(callStack, [id |-> callId, unitId |-> u])
          /\ traceLog' = Append(traceLog, StartEvent(callId, parent, u, inv))
          /\ calls' = Append(calls,
                 [id |-> callId, st |-> "running", preDepth |-> Len(callStack)])
          /\ jsStack' = Append(jsStack, inv)

\* A bug the pop-once property must catch: the promise callbacks leave the frame
StackAfterExitNoAsyncPop(stack, isAsync) ==
    IF isAsync THEN stack ELSE ArrayPop(stack)

\* callStack.pop() of the four exit paths (then / catch callbacks, else, catch)
StackAfterExit(stack, isAsync) == ArrayPop(stack)

\* One exit path of invocation i: the completion event, then callStack.pop()
Complete(i, event, st) ==
    /\ traceLog' = Append(traceLog, event)
    /\ callStack' = StackAfterExit(callStack, event.async)
    /\ calls' = [calls EXCEPT ![i].st = st]
    /\ UNCHANGED nextCallId

\* fn.apply returned a value that is not a thenable
SyncReturn ==
    /\ Len(jsStack) > 0
    /\ LET i == Last(jsStack)
       IN /\ Complete(i, EndEvent(calls[i].id, FALSE, i), "returned")
          /\ jsStack' = ArrayPop(jsStack)

\* fn.apply threw: the catch block
SyncThrow ==
    /\ Len(jsStack) > 0
    /\ LET i == Last(jsStack)
       IN /\ Complete(i, ErrorEvent(calls[i].id, FALSE, i), "threw")
          /\ jsStack' = ArrayPop(jsStack)

\* fn.apply returned a thenable: handlers are attached, the frame stays pushed
ReturnPromise ==
    /\ Len(jsStack) > 0
    /\ LET i == Last(jsStack)
       IN /\ calls' = [calls EXCEPT ![i].st = "pending"]
          /\ jsStack' = ArrayPop(jsStack)
    /\ UNCHANGED <<traceLog, callStack, nextCallId>>

\* the .then callback (runs as a job, when no synchronous code is running)
PromiseResolve(i) ==
    /\ Len(jsStack) = 0
    /\ i \in 1..Len(calls) /\ Pending(i)
    /\ Complete(i, EndEvent(calls[i].id, TRUE, i), "resolved")
    /\ UNCHANGED jsStack

\* the .catch callback
PromiseReject(i) ==
    /\ Len(jsStack) = 0
    /\ i \in 1..Len(calls) /\ Pending(i)
    /\ Complete(i, ErrorEvent(calls[i].id, TRUE, i), "rejected")
    /\ UNCHANGED jsStack

\* clearTraceLog(): resets the log, the stack and the id counter
clearTraceLog ==
    /\ traceLog' = <<>>
    /\ callStack' = <<>>
    /\ nextCallId' = 0

TracerInit ==
    /\ traceLog = <<>>
    /\ callStack = <<>>
    /\ nextCallId = 0
    /\ calls = <<>>
    /\ jsStack = <<>>

InitTracer ==
    /\ TracerInit
    /\ store = EmptyStore
    /\ cycles = <<>>
    /\ timer = "off"
    /\ RestIdle

NextTracer ==
    \/ (\E u \in TracerUnits : Invoke(u, MaxCalls)) /\ UNCHANGED <<store, updaterVars, restVars>>
    \/ SyncReturn /\ UNCHANGED <<store, updaterVars, restVars>>
    \/ SyncThrow /\ UNCHANGED <<store, updaterVars, restVars>>
    \/ ReturnPromise /\ UNCHANGED <<store, updaterVars, restVars>>
    \/ (\E i \in 1..MaxCalls : PromiseResolve(i)) /\ UNCHANGED <<store, updaterVars, restVars>>
    \/ (\E i \in 1..MaxCalls : PromiseReject(i)) /\ UNCHANGED <<store, updaterVars, restVars>>
    \/ (Len(traceLog) > 0 /\ Len(jsStack) = 0 /\ clearTraceLog /\ UNCHANGED <<calls, jsStack, store, updaterVars, restVars>>)

SpecTracer == InitTracer /\ [][NextTracer]_vars

----------------------------------------------------------------------------
(* db.js : the keyed object store and putUnitsChunked *)

\* store.put(unit): insert or overwrite the record whose key is unit.id
StorePut(st, unit) ==
    [k \in (DOMAIN st) \cup {unit.id} |-> IF k = unit.id THEN unit ELSE st[k]]

RECURSIVE StorePutAll(_, _)
\* chunk.forEach(unit => store.put(unit)) of one committed transaction
StorePutAll(st, chunk) ==
    IF chunk = <<>> THEN st
    ELSE StorePutAll(StorePut(st, Head(chunk)), Tail(chunk))

\* putUnitsChunked(units, storeName, chunkSize = 50): default chunk size
CHUNK_SIZE == 50

Min(a, b) == IF a < b THEN a ELSE b

\* units.slice(i, i + chunkSize), i counted from 0
Chunk(units, i, chunkSize) == SubSeq(units, i + 1, Min(i + chunkSize, Len(units)))

\* a unit record of the 'codeUnits' store
Unit(id, name, code, deps, rels, clusterId) ==
    [id |-> id, name |-> name, code |-> code, staticDependencies |-> deps,
     dynamicRelationships |-> rels, clusterId |-> clusterId]

NoCluster == "null"

----------------------------------------------------------------------------
(* relationshipUpdater.js : updateDynamicRelationships, startPeriodicUpdates *)

\* traceLog.find(e => e.id === id): index of the first entry with that id, 0 if none
FindById(log, id) ==
    LET hits == {k \in 1..Len(log) : log[k].id = id}
    IN IF hits = {} THEN 0 ELSE CHOOSE k \in hits : \A m \in hits : k <= m

\* the condition under which an entry is counted, and its "caller->callee" key
Counted(log, k) ==
    /\ log[k].type = "callStart"
    /\ log[k].parentId # NoCall
    /\ log[k].unitId # NoUnit
    /\ FindById(log, log[k].parentId) # 0
    /\ log[FindById(log, log[k].parentId)].unitId # NoUnit

KeyOf(log, k) ==
    [src |-> log[FindById(log, log[k].parentId)].unitId, tgt |-> log[k].unitId]

RECURSIVE Aggregate(_, _, _)
\* callFrequencyMap after the loop over the log: its entries in insertion order
Aggregate(log, k, map) ==
    IF k > Len(log) THEN map
    ELSE IF ~Counted(log, k) THEN Aggregate(log, k + 1, map)
    ELSE LET key == KeyOf(log, k)
             at == {m \in 1..Len(map) : map[m].src = key.src /\ map[m].tgt = key.tgt}
         IN IF at = {}
            THEN Aggregate(log, k + 1,
                     Append(map, [src |-> key.src, tgt |-> key.tgt, frequency |-> 1]))
            ELSE Aggregate(log, k + 1,
                     [map EXCEPT ![CHOOSE m \in at : TRUE].frequency = @ + 1])

\* dynamicRelationships.findIndex(rel => rel.targetId === targetId), 0 if none
FindRel(rels, targetId) ==
    LET hits == {k \in 1..Len(rels) : rels[k].targetId = targetId}
    IN IF hits = {} THEN 0 ELSE CHOOSE k \in hits : \A m \in hits : k <= m

\* the source unit with the counter of one key merged into its relationships
MergeRel(unit, targetId, frequency) ==
    LET at == FindRel(unit.dynamicRelationships, targetId)
    IN IF at > 0
       THEN [unit EXCEPT !.dynamicRelationships[at].frequency = @ + frequency]
       ELSE [unit EXCEPT !.dynamicRelationships =
                Append(@, [targetId |-> targetId, frequency |-> frequency])]

CycleRec(pc, log, keys, k, updated, written, st0) ==
    [pc |-> pc, log |-> log, keys |-> keys, k |-> k, updatedUnits |-> updated,
     written |-> written, store0 |-> st0]

\* a run that has returned ("done", with its { updated: n }) or rejected ("failed")
Finished(pc, n) == CycleRec(pc, <<>>, <<>>, 1, <<>>, n, EmptyStore)

InFlightCycles == {c \in 1..Len(cycles) : cycles[c].pc \in {"get", "put"}}

\* the call of updateDynamicRelationships up to its first await
BeginCycle ==
    /\ Len(cycles) < MaxCycles
    /\ Len(jsStack) = 0
    /\ IF Len(traceLog) = 0
       THEN \* return { updated: 0 }
            /\ cycles' = Append(cycles, Finished("done", 0))
            /\ UNCHANGED <<traceLog, callStack, nextCallId>>
       ELSE LET keys == Aggregate(traceLog, 1, <<>>)
            IN IF keys = <<>>
               THEN \* nothing to fetch, nothing to store: the log is cleared at once
                    /\ cycles' = Append(cycles, Finished("done", 0))
                    /\ clearTraceLog
               ELSE /\ cycles' = Append(cycles,
                           CycleRec("get", traceLog, keys, 1, <<>>, 0, store))
                    /\ UNCHANGED <<traceLog, callStack, nextCallId>>
    /\ UNCHANGED <<calls, jsStack, store>>

\* what follows the loop over the keys, up to the await of putUnitsChunked
AfterKeys(c, updated) ==
    IF updated = <<>>
    THEN /\ cycles' = [cycles EXCEPT ![c] = Finished("done", 0)]
         /\ clearTraceLog
    ELSE /\ cycles' = [cycles EXCEPT ![c].pc = "put", ![c].k = Len(cycles[c].keys) + 1,
                                     ![c].updatedUnits = updated]
         /\ UNCHANGED <<traceLog, callStack, nextCallId>>

\* await getUnit(sourceId) resolves for the current key: the unit, or undefined
\* when the store has none (the key is then skipped)
GetUnitStep(c) ==
    /\ c \in 1..Len(cycles) /\ cycles[c].pc = "get"
    /\ Len(jsStack) = 0
    /\ LET cy == cycles[c]
           key == cy.keys[cy.k]
           updated == IF key.src \in DOMAIN store
                      THEN Append(cy.updatedUnits,
                               MergeRel(store[key.src], key.tgt, key.frequency))
                      ELSE cy.updatedUnits
       IN IF cy.k < Len(cy.keys)
          THEN /\ cycles' = [cycles EXCEPT ![c].k = @ + 1, ![c].updatedUnits = updated]
               /\ UNCHANGED <<traceLog, callStack, nextCallId>>
          ELSE AfterKeys(c, updated)
    /\ UNCHANGED <<calls, jsStack, store>>

\* the statements after `await putUnitsChunked(updatedUnits)` returned
AfterPut(c, written) ==
    /\ cycles' = [cycles EXCEPT ![c] = Finished("done", Len(@.updatedUnits))]
    /\ clearTraceLog

\* a bug the claims must catch: the log is cleared whether or not the put succeeded
PutChunkFailedClearing(c) ==
    /\ cycles' = [cycles EXCEPT ![c] = Finished("failed", 0)]
    /\ clearTraceLog

\* the transaction of the current chunk fails: putUnitsChunked rejects and
\* updateDynamicRelationships rejects at its await, before clearTraceLog
PutChunkFailed(c) ==
    /\ cycles' = [cycles EXCEPT ![c] = Finished("failed", 0)]
    /\ UNCHANGED <<traceLog, callStack, nextCallId>>

\* the transaction of the current chunk of putUnitsChunked(updatedUnits) ends
PutChunkStep(c, ok) ==
    /\ c \in 1..Len(cycles) /\ cycles[c].pc = "put"
    /\ Len(jsStack) = 0
    /\ LET cy == cycles[c]
           chunk == Chunk(cy.updatedUnits, cy.written, CHUNK_SIZE)
           written == cy.written + Len(chunk)
       IN IF ~ok
          THEN PutChunkFailed(c) /\ UNCHANGED store
          ELSE /\ store' = StorePutAll(store, chunk)
               /\ IF written < Len(cy.updatedUnits)
                  THEN /\ cycles' = [cycles EXCEPT ![c].written = written]
                       /\ UNCHANGED <<traceLog, callStack, nextCallId>>
                  ELSE AfterPut(c, written)
    /\ UNCHANGED <<calls, jsStack>>

\* startPeriodicUpdates(intervalMs): one run now, then setInterval
startPeriodicUpdates ==
    /\ timer = "off"
    /\ BeginCycle
    /\ timer' = "on"

\* an interval callback that still fires after clearInterval
TimerTickAfterStop ==
    /\ timer \in {"on", "stopped"}
    /\ BeginCycle
    /\ UNCHANGED timer

\* the interval callback
TimerTick ==
    /\ timer = "on"
    /\ BeginCycle
    /\ UNCHANGED timer

\* the returned handle's stop(): clearInterval
StopUpdates ==
    /\ timer = "on"
    /\ timer' = "stopped"
    /\ UNCHANGED <<tracerVars, store, cycles>>

UpdaterUnits == {"A", "B"}

\* stores the updater may find: unit A is stored, with or without an earlier
\* relationship to B; B is traced but not stored
UpdaterStores ==
    { [id \in {"A"} |-> Unit(id, id, 1, <<>>, rels, NoCluster)] :
        rels \in {<<>>, <<[targetId |-> "B", frequency |-> 1]>>} }

InitUpdater ==
    /\ TracerInit
    /\ store \in UpdaterStores
    /\ cycles = <<>>
    /\ timer = "off"
    /\ RestIdle

\* the traced program runs synchronous calls only; the updater's steps run
\* between its tasks
NextUpdater ==
    \/ (\E u \in UpdaterUnits : Invoke(u, MaxUpdCalls)) /\ UNCHANGED <<store, updaterVars, restVars>>
    \/ SyncReturn /\ UNCHANGED <<store, updaterVars, restVars>>
    \/ startPeriodicUpdates /\ UNCHANGED restVars
    \/ TimerTick /\ UNCHANGED restVars
    \/ StopUpdates /\ UNCHANGED restVars
    \/ (\E c \in 1..MaxCycles : GetUnitStep(c)) /\ UNCHANGED <<timer, restVars>>
    \/ (\E c \in 1..MaxCycles, ok \in BOOLEAN : PutChunkStep(c, ok)) /\ UNCHANGED <<timer, restVars>>

SpecUpdater == InitUpdater /\ [][NextUpdater]_vars

\* a synchronous traced call returns, and the store answers every request a
\* run awaits, with success or with an error
SpecUpdaterFair ==
    /\ InitUpdater
    /\ [][NextUpdater]_vars
    /\ WF_vars(SyncReturn /\ UNCHANGED <<store, updaterVars, restVars>>)
    /\ WF_vars((\E c \in 1..MaxCycles : GetUnitStep(c)) /\ UNCHANGED <<timer, restVars>>)
    /\ WF_vars((\E c \in 1..MaxCycles, ok \in BOOLEAN : PutChunkStep(c, ok))
                   /\ UNCHANGED <<timer, restVars>>)

----------------------------------------------------------------------------
(* codeLoader.js : resolveDependencies, topologicalSort *)

MaxEntries == 2        \* ids in one list passed to the loader

\* request.result of store.get(id) when no record has that key
Undefined == [id |-> "undefined"]

\* getUnitsChunked(ids): the records in the order of ids, chunk after chunk;
\* a missing key yields undefined
getUnitsChunked(st, ids) ==
    [k \in 1..Len(ids) |-> IF ids[k] \in DOMAIN st THEN st[ids[k]] ELSE Undefined]

\* Set.prototype.add: insertion order is kept, a present value is not re-added
SetAdd(s, x) == IF \E k \in 1..Len(s) : s[k] = x THEN s ELSE Append(s, x)

RECURSIVE SetFrom(_)
\* new Set(entryPointIds)
SetFrom(ids) ==
    IF ids = <<>> THEN <<>>
    ELSE SetAdd(SetFrom(SubSeq(ids, 1, Len(ids) - 1)), ids[Len(ids)])

\* units.find(u => u.name === depName): index of the first match, 0 if none
FindByName(units, depName) ==
    LET hits == {k \in 1..Len(units) : units[k].name = depName}
    IN IF hits = {} THEN 0 ELSE CHOOSE k \in hits : \A m \in hits : k <= m

\* rel.frequency > 5
STRONG_FREQUENCY == 5

RECURSIVE AddStatic(_, _, _)
\* unit.staticDependencies.forEach(depName => ...): names are looked up among
\* the units fetched in this iteration
AddStatic(required, units, deps) ==
    IF deps = <<>> THEN required
    ELSE LET m == FindByName(units, Head(deps))
         IN AddStatic(IF m # 0 THEN SetAdd(required, units[m].id) ELSE required,
                      units, Tail(deps))

RECURSIVE AddDynamicUnfiltered(_, _)
\* every relationship brings its target in, whatever its frequency
AddDynamicUnfiltered(required, rels) ==
    IF rels = <<>> THEN required
    ELSE AddDynamicUnfiltered(SetAdd(required, Head(rels).targetId), Tail(rels))

RECURSIVE AddDynamic(_, _)
\* unit.dynamicRelationships.filter(rel => rel.frequency > 5).forEach(...)
AddDynamic(required, rels) ==
    IF rels = <<>> THEN required
    ELSE AddDynamic(IF Head(rels).frequency > STRONG_FREQUENCY
                        THEN SetAdd(required, Head(rels).targetId)
                        ELSE required,
                    Tail(rels))

RECURSIVE AddUnits(_, _, _)
\* units.forEach(unit => ...) from the k-th unit on
AddUnits(required, units, k) ==
    IF k > Len(units) THEN required
    ELSE AddUnits(AddDynamic(AddStatic(required, units, units[k].staticDependencies),
                             units[k].dynamicRelationships),
                  units, k + 1)

LoaderRec(pc, ids, required, processed, result) ==
    [pc |-> pc, ids |-> ids, required |-> required, processed |-> processed,
     result |-> result]

\* resolveDependencies(entryPointIds) up to its first await
resolveDependencies(entryPointIds) ==
    /\ loader.pc = "idle"
    /\ loader' = IF Len(entryPointIds) = 0
                 THEN LoaderRec("threw", entryPointIds, <<>>, {}, <<>>)
                 ELSE LoaderRec("resolving", entryPointIds, SetFrom(entryPointIds), {}, <<>>)
    /\ UNCHANGED <<tracerVars, store, updaterVars, clusterer, ingestVars, extraVars>>

\* an iteration that fetches and adds but marks no id as processed
ResolveIterationUnmarked ==
    /\ loader.pc = "resolving"
    /\ LET unprocessedIds == SelectSeq(loader.required, LAMBDA id : id \notin loader.processed)
           units == getUnitsChunked(store, unprocessedIds)
       IN loader' =
            IF unprocessedIds = <<>>
            THEN [loader EXCEPT !.pc = "resolved", !.result = loader.required]
            ELSE IF \E k \in 1..Len(units) : units[k] = Undefined
            THEN [loader EXCEPT !.pc = "threw"]
            ELSE [loader EXCEPT !.required = AddUnits(loader.required, units, 1)]
    /\ UNCHANGED <<tracerVars, store, updaterVars, clusterer, ingestVars, extraVars>>

\* one iteration of the while (true) loop; reading a property of an undefined
\* unit throws a TypeError
ResolveIteration ==
    /\ loader.pc = "resolving"
    /\ LET unprocessedIds == SelectSeq(loader.required, LAMBDA id : id \notin loader.processed)
           units == getUnitsChunked(store, unprocessedIds)
       IN loader' =
            IF unprocessedIds = <<>>
            THEN [loader EXCEPT !.pc = "resolved", !.result = loader.required]
            ELSE IF \E k \in 1..Len(units) : units[k] = Undefined
            THEN [loader EXCEPT !.pc = "threw"]
            ELSE [loader EXCEPT
                    !.processed = @ \cup {unprocessedIds[k] : k \in 1..Len(unprocessedIds)},
                    !.required = AddUnits(loader.required, units, 1)]
    /\ UNCHANGED <<tracerVars, store, updaterVars, clusterer, ingestVars, extraVars>>

RECURSIVE TargetIds(_, _)
\* the ids pushed for one unit: one per dependency name found among units
TargetIds(units, deps) ==
    IF deps = <<>> THEN <<>>
    ELSE LET m == FindByName(units, Head(deps))
         IN (IF m # 0 THEN <<units[m].id>> ELSE <<>>) \o TargetIds(units, Tail(deps))

RECURSIVE DependenciesFrom(_, _, _)
\* graph[id].dependencies: what the units with that id push, from the k-th on
DependenciesFrom(units, id, k) ==
    IF k > Len(units) THEN <<>>
    ELSE (IF units[k].id = id THEN TargetIds(units, units[k].staticDependencies)
                              ELSE <<>>)
         \o DependenciesFrom(units, id, k + 1)

\* graph: unit id -> ids of the units it depends on
Graph(units) ==
    [id \in {units[k].id : k \in 1..Len(units)} |-> DependenciesFrom(units, id, 1)]

\* result.unshift(nodeId)
Unshift(result, nodeId) == <<nodeId>> \o result

RECURSIVE visit(_, _, _)
RECURSIVE VisitEach(_, _, _)
\* a visit that does not return early for a permanently marked node
visitRevisiting(graph, nodeId, s) ==
    IF nodeId \in s.temp THEN s
    ELSE LET s1 == [s EXCEPT !.temp = @ \cup {nodeId}]
             s2 == IF nodeId \in DOMAIN graph
                   THEN VisitEach(graph, graph[nodeId], s1)
                   ELSE s1
         IN [temp |-> s2.temp \ {nodeId},
             perm |-> s2.perm \cup {nodeId},
             result |-> Unshift(s2.result, nodeId)]

\* visit(nodeId, temp, perm, result); s holds temp, perm and result
visit(graph, nodeId, s) ==
    IF nodeId \in s.temp THEN s
    ELSE IF nodeId \in s.perm THEN s
    ELSE LET s1 == [s EXCEPT !.temp = @ \cup {nodeId}]
             s2 == IF nodeId \in DOMAIN graph
                   THEN VisitEach(graph, graph[nodeId], s1)
                   ELSE s1
         IN [temp |-> s2.temp \ {nodeId},
             perm |-> s2.perm \cup {nodeId},
             result |-> Unshift(s2.result, nodeId)]

\* node.dependencies.forEach(depId => visit(depId, temp, perm, result))
VisitEach(graph, depIds, s) ==
    IF depIds = <<>> THEN s
    ELSE VisitEach(graph, Tail(depIds), visit(graph, Head(depIds), s))

RECURSIVE VisitRoots(_, _, _)
\* unitIds.forEach(id => { if (!perm.has(id)) visit(id, temp, perm, result) })
VisitRoots(graph, unitIds, s) ==
    IF unitIds = <<>> THEN s
    ELSE VisitRoots(graph, Tail(unitIds),
                    IF Head(unitIds) \in s.perm THEN s
                    ELSE visit(graph, Head(unitIds), s))

\* the array topologicalSort(unitIds) returns when every id is stored
SortedIds(st, unitIds) ==
    VisitRoots(Graph(getUnitsChunked(st, unitIds)), unitIds,
               [temp |-> {}, perm |-> {}, result |-> <<>>]).result

\* the loader after topologicalSort(unitIds); building the graph throws a
\* TypeError when a fetched unit is undefined
Sorted(st, unitIds) ==
    IF \E k \in 1..Len(unitIds) : unitIds[k] \notin DOMAIN st
    THEN [loader EXCEPT !.pc = "threw", !.ids = unitIds]
    ELSE [loader EXCEPT !.pc = "sorted", !.ids = unitIds,
                        !.result = SortedIds(st, unitIds)]

\* topologicalSort(unitIds) called on its own
topologicalSort(unitIds) ==
    /\ loader.pc = "idle"
    /\ loader' = Sorted(store, unitIds)
    /\ UNCHANGED <<tracerVars, store, updaterVars, clusterer, ingestVars, extraVars>>

\* loadAndExecute: topologicalSort(allRequiredIds) after resolveDependencies
SortResolved ==
    /\ loader.pc = "resolved"
    /\ loader' = Sorted(store, loader.result)
    /\ UNCHANGED <<tracerVars, store, updaterVars, clusterer, ingestVars, extraVars>>

LoaderIds == {"mainId", "helperId", "utilId"}

\* the name of the function a unit holds
NameOf(id) == CASE id = "mainId" -> "main" [] id = "helperId" -> "helper"
                [] id = "utilId" -> "util"

\* an id under which no unit is stored
GhostId == "ghostId"

RECURSIVE SeqsUpTo(_, _)
\* the lists of at most n elements of S
SeqsUpTo(S, n) ==
    IF n = 0 THEN {<<>>}
    ELSE LET shorter == SeqsUpTo(S, n - 1)
         IN shorter \cup {Append(q, x) : q \in shorter, x \in S}

\* the stores the loader may find: main, helper and util with the names their
\* bodies call, and main with or without a runtime relationship
LoaderStores ==
    { [id \in LoaderIds |->
          Unit(id, NameOf(id), 1,
               CASE id = "mainId" -> dm [] id = "helperId" -> dh [] id = "utilId" -> du,
               IF id = "mainId" THEN rm ELSE <<>>,
               NoCluster)] :
        dm \in {q \in SeqsUpTo({"main", "helper", "util"}, 2) :
                    Len(q) = 2 => q[1] # q[2]},
        dh \in {<<>>, <<"util">>, <<"main">>, <<"util", "main">>},
        du \in {<<>>, <<"main">>},
        rm \in {<<>>, <<[targetId |-> "utilId", frequency |-> 5]>>,
                <<[targetId |-> "utilId", frequency |-> 6]>>,
                <<[targetId |-> GhostId, frequency |-> 6]>>} }

InitLoader ==
    /\ TracerInit
    /\ store \in LoaderStores
    /\ cycles = <<>>
    /\ timer = "off"
    /\ RestIdle

NextLoader ==
    \/ \E ids \in SeqsUpTo(LoaderIds \cup {GhostId}, MaxEntries) : resolveDependencies(ids)
    \/ ResolveIteration
    \/ \E ids \in SeqsUpTo(LoaderIds \cup {GhostId}, MaxEntries) : topologicalSort(ids)
    \/ SortResolved

SpecLoader == InitLoader /\ [][NextLoader]_vars

\* the awaited store reads complete, so a started resolution keeps iterating
SpecLoaderFair == InitLoader /\ [][NextLoader]_vars /\ WF_vars(ResolveIteration)

----------------------------------------------------------------------------
(* codeClusterer.js : clusterUnits *)

\* the keys of the object store in ascending key order
KeyOrder == <<"A", "func_func_g_1_2", "func_g_1", "func_x_4", "func_y_2", "helperId",
              "mainId", "utilId", "utils_fmt_5">>

\* getAllUnits(): store.getAll(), the records in ascending key order
getAllUnits(st) ==
    LET keys == SelectSeq(KeyOrder, LAMBDA k : k \in DOMAIN st)
    IN [k \in 1..Len(keys) |-> st[keys[k]]]

\* array.includes(x)
Includes(q, x) == \E k \in 1..Len(q) : q[k] = x

\* array.filter(x => keep.includes(x)).length and the filtered array
FilterIn(q, keep) == SelectSeq(q, LAMBDA x : Includes(keep, x))

\* graph[unit.id] = { unit, outgoing: unit.staticDependencies, incoming: [], codeSize };
\* outgoing is the unit's own staticDependencies array, not a copy
GraphNodes(units) ==
    [id \in {units[k].id : k \in 1..Len(units)} |->
        LET k == CHOOSE m \in 1..Len(units) : units[m].id = id
        IN [outgoing |-> units[k].staticDependencies,
            incoming |-> <<>>,
            codeSize |-> units[k].code]]

RECURSIVE StaticIncoming(_, _, _, _)
\* (unit.staticDependencies || []).forEach(depName => ...incoming.push(unit.id))
StaticIncoming(graph, units, unitId, deps) ==
    IF deps = <<>> THEN graph
    ELSE LET m == FindByName(units, Head(deps))
             g == IF m # 0
                  THEN [graph EXCEPT ![units[m].id].incoming = Append(@, unitId)]
                  ELSE graph
         IN StaticIncoming(g, units, unitId, Tail(deps))

RECURSIVE DynamicEdges(_, _, _)
\* (unit.dynamicRelationships || []).forEach(rel => ...): incoming of the target,
\* and the target id pushed into the unit's outgoing array when not yet there
DynamicEdges(graph, unitId, rels) ==
    IF rels = <<>> THEN graph
    ELSE LET t == Head(rels).targetId
             g1 == IF t \in DOMAIN graph
                   THEN [graph EXCEPT ![t].incoming = Append(@, unitId)]
                   ELSE graph
             g2 == IF t \in DOMAIN graph /\ ~Includes(g1[unitId].outgoing, t)
                   THEN [g1 EXCEPT ![unitId].outgoing = Append(@, t)]
                   ELSE g1
         IN DynamicEdges(g2, unitId, Tail(rels))

RECURSIVE FillEdges(_, _, _)
\* the second units.forEach, from the k-th unit on
FillEdges(graph, units, k) ==
    IF k > Len(units) THEN graph
    ELSE FillEdges(DynamicEdges(StaticIncoming(graph, units, units[k].id,
                                               units[k].staticDependencies),
                                units[k].id, units[k].dynamicRelationships),
                   units, k + 1)

\* the dependency graph clusterUnits works on
ClusterGraph(units) == FillEdges(GraphNodes(units), units, 1)

\* unit.name.indexOf('.') > 0 ? unit.name.substring(0, dotIndex) : 'default'
PrefixOf(name) == IF name = "utils.fmt" THEN "utils" ELSE "default"

RECURSIVE PrefixClusters(_, _, _)
\* prefixClusters: the buckets in the order their prefix first occurs, each
\* with its unit ids in the order of units
PrefixClusters(units, k, buckets) ==
    IF k > Len(units) THEN buckets
    ELSE LET p == PrefixOf(units[k].name)
             hits == {b \in 1..Len(buckets) : buckets[b].prefix = p}
         IN PrefixClusters(units, k + 1,
                IF hits = {}
                THEN Append(buckets, [prefix |-> p, units |-> <<units[k].id>>])
                ELSE LET b == CHOOSE x \in hits : TRUE
                     IN [buckets EXCEPT ![b].units = Append(@, units[k].id)])

RECURSIVE SumSizes(_, _)
\* clusterUnits.reduce((sum, unitId) => sum + graph[unitId].codeSize, 0)
SumSizes(graph, ids) ==
    IF ids = <<>> THEN 0 ELSE graph[Head(ids)].codeSize + SumSizes(graph, Tail(ids))

\* aConnections: the outgoing and incoming entries that are remaining units
Connections(graph, a, remainingUnits) ==
    Len(FilterIn(graph[a].outgoing, remainingUnits))
        + Len(FilterIn(graph[a].incoming, remainingUnits))

\* one step of the stable sort: x goes behind the units that have at least
\* as many connections
InsertSorted(sorted, x, graph, remainingUnits) ==
    LET c == Connections(graph, x, remainingUnits)
        n == Cardinality({k \in 1..Len(sorted) :
                            Connections(graph, sorted[k], remainingUnits) >= c})
    IN SubSeq(sorted, 1, n) \o <<x>> \o SubSeq(sorted, n + 1, Len(sorted))

RECURSIVE SortFrom(_, _, _, _)
SortFrom(graph, remainingUnits, k, sorted) ==
    IF k > Len(remainingUnits) THEN sorted
    ELSE SortFrom(graph, remainingUnits, k + 1,
                  InsertSorted(sorted, remainingUnits[k], graph, remainingUnits))

\* remainingUnits.sort((a, b) => bConnections - aConnections): most connected
\* first, equal counts keep their order
SortByConnections(graph, remainingUnits) == SortFrom(graph, remainingUnits, 1, <<>>)

\* the condition under which the inner while loop takes another candidate
KeepsGrowing(currentSize, maxClusterSize) == currentSize < maxClusterSize

RECURSIVE Grow(_, _, _)
\* while (candidates.length > 0 && currentSize < maxClusterSize) { ... };
\* s holds currentCluster, currentSize, remainingUnits and candidates
Grow(graph, maxClusterSize, s) ==
    IF s.candidates = <<>> \/ ~KeepsGrowing(s.currentSize, maxClusterSize) THEN s
    ELSE LET nextUnit == Head(s.candidates)
             rest == Tail(s.candidates)
         IN IF ~Includes(s.remainingUnits, nextUnit)
            THEN Grow(graph, maxClusterSize, [s EXCEPT !.candidates = rest])
            ELSE LET remaining == SelectSeq(s.remainingUnits, LAMBDA x : x # nextUnit)
                     Fresh(q) == SelectSeq(q, LAMBDA id : Includes(remaining, id)
                                                          /\ ~Includes(rest, id))
                 IN Grow(graph, maxClusterSize,
                         [currentCluster |-> Append(s.currentCluster, nextUnit),
                          currentSize |-> s.currentSize + graph[nextUnit].codeSize,
                          remainingUnits |-> remaining,
                          candidates |-> rest \o Fresh(graph[nextUnit].outgoing)
                                              \o Fresh(graph[nextUnit].incoming)])

\* `cluster_${nextClusterId++}`
ClusterNames == <<"cluster_1", "cluster_2", "cluster_3", "cluster_4", "cluster_5">>

Cluster(n, prefix, units, totalSize) ==
    [id |-> ClusterNames[n], prefix |-> prefix, units |-> units, totalSize |-> totalSize]

RECURSIVE Split(_, _, _, _, _)
\* while (remainingUnits.length > 0) { ... }; acc holds nextClusterId and
\* finalClusters
Split(graph, maxClusterSize, prefix, remainingUnits, acc) ==
    IF remainingUnits = <<>> THEN acc
    ELSE LET sorted == SortByConnections(graph, remainingUnits)
             startUnit == Head(sorted)
             rem == Tail(sorted)
             s == Grow(graph, maxClusterSize,
                       [currentCluster |-> <<startUnit>>,
                        currentSize |-> graph[startUnit].codeSize,
                        remainingUnits |-> rem,
                        candidates |-> FilterIn(graph[startUnit].outgoing, rem)
                                           \o FilterIn(graph[startUnit].incoming, rem)])
         IN Split(graph, maxClusterSize, prefix, s.remainingUnits,
                  [next |-> acc.next + 1,
                   final |-> Append(acc.final,
                                    Cluster(acc.next, prefix, s.currentCluster,
                                            s.currentSize))])

RECURSIVE FinalClusters(_, _, _, _)
\* Object.entries(prefixClusters).forEach(([prefix, clusterUnits]) => ...)
FinalClusters(graph, maxClusterSize, buckets, acc) ==
    IF buckets = <<>> THEN acc.final
    ELSE LET b == Head(buckets)
             totalSize == SumSizes(graph, b.units)
         IN FinalClusters(graph, maxClusterSize, Tail(buckets),
                IF totalSize <= maxClusterSize
                THEN [next |-> acc.next + 1,
                      final |-> Append(acc.final,
                                       Cluster(acc.next, b.prefix, b.units, totalSize))]
                ELSE Split(graph, maxClusterSize, b.prefix, b.units, acc))

\* a unit object whose clusterId is left as it was
ClusteredKeepingId(unit, graph, clusterId) ==
    [unit EXCEPT !.staticDependencies = graph[unit.id].outgoing]

\* the unit object after the run: its clusterId is set, and its
\* staticDependencies array is the graph's outgoing array
Clustered(unit, graph, clusterId) ==
    [unit EXCEPT !.clusterId = clusterId,
                 !.staticDependencies = graph[unit.id].outgoing]

RECURSIVE UpdatedUnits(_, _, _)
\* Object.entries(finalClusters).forEach(... updatedUnits.push(unit))
UpdatedUnits(units, graph, clusters) ==
    IF clusters = <<>> THEN <<>>
    ELSE LET c == Head(clusters)
         IN [k \in 1..Len(c.units) |->
                Clustered(units[CHOOSE m \in 1..Len(units) : units[m].id = c.units[k]],
                          graph, c.id)]
            \o UpdatedUnits(units, graph, Tail(clusters))

MaxRuns == 2           \* clusterUnits calls in one behaviour

ClustererRec(pc, max, clusters, updatedUnits, history) ==
    [pc |-> pc, max |-> max, clusters |-> clusters, updatedUnits |-> updatedUnits,
     history |-> history]

\* clusterUnits(maxClusterSize) from getAllUnits() to the await of
\* putUnitsChunked(updatedUnits); with no unit it returns success: false
clusterUnits(maxClusterSize) ==
    /\ clusterer.pc \in {"idle", "done", "failed", "empty"}
    /\ Len(clusterer.history) < MaxRuns
    /\ LET units == getAllUnits(store)
           graph == ClusterGraph(units)
           clusters == FinalClusters(graph, maxClusterSize,
                                     PrefixClusters(units, 1, <<>>),
                                     [next |-> 1, final |-> <<>>])
       IN clusterer' =
            IF Len(units) = 0
            THEN ClustererRec("empty", maxClusterSize, <<>>, <<>>,
                              Append(clusterer.history,
                                     [max |-> maxClusterSize, success |-> FALSE,
                                      clusterIds |-> EmptyStore]))
            ELSE ClustererRec("put", maxClusterSize, clusters,
                              UpdatedUnits(units, graph, clusters), clusterer.history)
    /\ UNCHANGED <<tracerVars, store, updaterVars, loader, ingestVars, extraVars>>

\* the clusterId of every stored unit
ClusterIds(st) == [id \in DOMAIN st |-> st[id].clusterId]

\* a write that sets the clusterId of the records now stored instead of
\* putting the records read before
ClusterPutMerging(ok) ==
    /\ clusterer.pc = "put"
    /\ store' = IF ok
                THEN [id \in DOMAIN store |->
                        IF \E k \in 1..Len(clusterer.updatedUnits) :
                              clusterer.updatedUnits[k].id = id
                        THEN LET u == clusterer.updatedUnits[
                                        CHOOSE k \in 1..Len(clusterer.updatedUnits) :
                                           clusterer.updatedUnits[k].id = id]
                             IN [store[id] EXCEPT !.clusterId = u.clusterId,
                                                  !.staticDependencies = u.staticDependencies]
                        ELSE store[id]]
                ELSE store
    /\ clusterer' = [clusterer EXCEPT
                       !.pc = IF ok THEN "done" ELSE "failed",
                       !.history = Append(@, [max |-> clusterer.max, success |-> ok,
                                              clusterIds |-> ClusterIds(store')])]
    /\ UNCHANGED <<tracerVars, updaterVars, loader, ingestVars, extraVars>>

\* putUnitsChunked(updatedUnits) of clusterUnits: the transaction commits and
\* the run returns success: true, or it fails and the run returns success: false
ClusterPut(ok) ==
    /\ clusterer.pc = "put"
    /\ store' = IF ok
                THEN StorePutAll(store, Chunk(clusterer.updatedUnits, 0, CHUNK_SIZE))
                ELSE store
    /\ clusterer' = [clusterer EXCEPT
                       !.pc = IF ok THEN "done" ELSE "failed",
                       !.history = Append(@, [max |-> clusterer.max, success |-> ok,
                                              clusterIds |-> ClusterIds(store')])]
    /\ UNCHANGED <<tracerVars, updaterVars, loader, ingestVars, extraVars>>

\* the units the clusterer may find: g, x, and at most one of func_g_1 (named
\* like the id of g), y and utils.fmt
ClustererCatalogue ==
    [func_g_1 |-> "g", func_x_4 |-> "x", func_func_g_1_2 |-> "func_g_1",
     func_y_2 |-> "y", utils_fmt_5 |-> "utils.fmt"]

ClusterSizes == {1, 2}

ClustererStores ==
    {EmptyStore} \cup
    { [id \in {"func_g_1", "func_x_4"} \cup third |->
          Unit(id, ClustererCatalogue[id], size[id],
               CASE id = "func_g_1" -> <<>> [] id = "func_x_4" -> dx [] OTHER -> d3,
               CASE id = "func_g_1" -> rg [] id = "func_x_4" -> rx [] OTHER -> <<>>,
               NoCluster)] :
        third \in {{}, {"func_func_g_1_2"}, {"func_y_2"}, {"utils_fmt_5"}},
        size \in [DOMAIN ClustererCatalogue -> ClusterSizes],
        dx \in {<<>>, <<"g">>},
        d3 \in {<<>>, <<"x">>},
        rg \in {<<>>, <<[targetId |-> "func_x_4", frequency |-> 1]>>},
        rx \in {<<>>, <<[targetId |-> "func_g_1", frequency |-> 1]>>} }

MaxClusterSizes == {2, 3}

InitClusterer ==
    /\ TracerInit
    /\ store \in ClustererStores
    /\ cycles = <<>>
    /\ timer = "off"
    /\ RestIdle

NextClusterer ==
    \/ \E maxClusterSize \in MaxClusterSizes : clusterUnits(maxClusterSize)
    \/ \E ok \in BOOLEAN : ClusterPut(ok)

SpecClusterer == InitClusterer /\ [][NextClusterer]_vars

----------------------------------------------------------------------------
(* staticAnalyzerWorker.js : the result of analyzeCode; codeIngester.js *)

MaxIngests == 2        \* ingestCode calls in one behaviour
MaxMerges == 3         \* analysis results merged in one behaviour

\* `func_${name}_${startLine}`
FuncId(name, startLine) == "func_" \o name \o "_" \o ToString(startLine)

\* what extractFunction found for one candidate: its name, start line, the
\* names called in its body and the length of its code
Candidate(name, startLine, functionCalls, size) ==
    [name |-> name, startLine |-> startLine, functionCalls |-> functionCalls,
     size |-> size]

\* the unit extractFunction returns
ExtractedUnit(c) ==
    Unit(FuncId(c.name, c.startLine), c.name, c.size, c.functionCalls, <<>>, NoCluster)

\* `dep_${unit.id}_${targetUnit.id}`: one id per pair of unit ids
DepId(sourceId, targetId) == <<"dep", sourceId, targetId>>

\* an edge record keyed by a running number instead of the pair of unit ids
DepRecordAutoKey(unit, targetUnit) ==
    [id |-> <<"dep", Cardinality(DOMAIN depStore)>>, sourceId |-> unit.id,
     targetId |-> targetUnit.id, type |-> "static"]

\* the record pushed for a dependency name that resolves to targetUnit
DepRecord(unit, targetUnit) ==
    [id |-> DepId(unit.id, targetUnit.id), sourceId |-> unit.id,
     targetId |-> targetUnit.id, type |-> "static"]

RECURSIVE UnitDependencies(_, _, _)
\* unit.staticDependencies.forEach(depName => ...)
UnitDependencies(units, unit, deps) ==
    IF deps = <<>> THEN <<>>
    ELSE LET m == FindByName(units, Head(deps))
         IN (IF m # 0 THEN <<DepRecord(unit, units[m])>> ELSE <<>>)
            \o UnitDependencies(units, unit, Tail(deps))

RECURSIVE Dependencies(_, _)
\* units.forEach(unit => ...) from the k-th unit on
Dependencies(units, k) ==
    IF k > Len(units) THEN <<>>
    ELSE UnitDependencies(units, units[k], units[k].staticDependencies)
         \o Dependencies(units, k + 1)

\* analyzeCode(codeChunk, lineOffset), the chunk given by its candidates
analyzeCode(chunk) ==
    LET units == [k \in 1..Len(chunk) |-> ExtractedUnit(chunk[k])]
    IN [units |-> units, dependencies |-> Dependencies(units, 1)]

\* a message of the worker; a progress message carries no units
Message(type, units, dependencies) ==
    [type |-> type, units |-> units, dependencies |-> dependencies]

\* self.onmessage: the worker posts 'progress', then 'complete'
WorkerPosts(chunk) ==
    LET result == analyzeCode(chunk)
    IN <<Message("progress", <<>>, <<>>),
         Message("complete", result.units, result.dependencies)>>

\* runInWorker: the promise resolves with the first message that arrives,
\* the worker is terminated and its later messages are dropped
ResolvedWith(inbox) == Head(inbox)

\* ingestCode(sourceCode, ...) up to the first chunk of processCodeChunks
ingestCode(source) ==
    /\ ingest.pc \in {"idle", "done", "failed"}
    /\ Len(ingest.sources) < MaxIngests
    /\ ingest' = [ingest EXCEPT !.pc = "chunk", !.chunks = source, !.i = 1,
                                !.inbox = <<>>, !.allUnits = <<>>,
                                !.allDependencies = <<>>, !.extracted = <<>>,
                                !.unitsCount = 0, !.sources = Append(@, source)]
    /\ UNCHANGED <<tracerVars, store, updaterVars, loader, clusterer, depStore, extraVars>>

\* the end of one iteration of the chunk loop
NextChunk(ing) ==
    IF ing.i = Len(ing.chunks) THEN [ing EXCEPT !.pc = "putUnits"]
    ELSE [ing EXCEPT !.pc = "chunk", !.i = @ + 1]

\* the loop body up to await runInWorker(...): getStaticAnalyzerWorkerCode()
\* reads findMatchingBracket, extractFunction and analyzeCode; where they are
\* not bound it throws and the catch goes on with the next chunk
StartWorker ==
    /\ ingest.pc = "chunk"
    /\ ingest' = IF ~ingest.inScope THEN NextChunk(ingest)
                 ELSE [ingest EXCEPT
                         !.pc = "await",
                         !.inbox = WorkerPosts(ingest.chunks[ingest.i]),
                         !.extracted = @ \o analyzeCode(ingest.chunks[ingest.i]).units]
    /\ UNCHANGED <<tracerVars, store, updaterVars, loader, clusterer, depStore, extraVars>>

\* worker.onmessage of runInWorker, then the rest of the loop body
WorkerMessage ==
    /\ ingest.pc = "await"
    /\ LET result == ResolvedWith(ingest.inbox)
       IN ingest' = NextChunk([ingest EXCEPT
                       !.inbox = <<>>,
                       !.allUnits = IF result.type = "complete"
                                    THEN @ \o result.units ELSE @,
                       !.allDependencies = IF result.type = "complete"
                                           THEN @ \o result.dependencies ELSE @])
    /\ UNCHANGED <<tracerVars, store, updaterVars, loader, clusterer, depStore, extraVars>>

\* if (units.length > 0) await putUnitsChunked(units)
PersistUnits(ok) ==
    /\ ingest.pc = "putUnits"
    /\ IF Len(ingest.allUnits) = 0
       THEN ingest' = [ingest EXCEPT !.pc = "putDeps"] /\ UNCHANGED store
       ELSE IF ok
       THEN /\ store' = StorePutAll(store, Chunk(ingest.allUnits, 0, CHUNK_SIZE))
            /\ ingest' = [ingest EXCEPT !.pc = "putDeps"]
       ELSE ingest' = [ingest EXCEPT !.pc = "failed"] /\ UNCHANGED store
    /\ UNCHANGED <<tracerVars, updaterVars, loader, clusterer, depStore, extraVars>>

\* if (dependencies.length > 0) await putUnitsChunked(dependencies, 'dependencies');
\* return { success: true, unitsCount: units.length, ... }
PersistDependencies(ok) ==
    /\ ingest.pc = "putDeps"
    /\ IF Len(ingest.allDependencies) = 0
       THEN /\ ingest' = [ingest EXCEPT !.pc = "done",
                                        !.unitsCount = Len(ingest.allUnits)]
            /\ UNCHANGED depStore
       ELSE IF ok
       THEN /\ depStore' = StorePutAll(depStore,
                                       Chunk(ingest.allDependencies, 0, CHUNK_SIZE))
            /\ ingest' = [ingest EXCEPT !.pc = "done",
                                        !.unitsCount = Len(ingest.allUnits)]
       ELSE ingest' = [ingest EXCEPT !.pc = "failed"] /\ UNCHANGED depStore
    /\ UNCHANGED <<tracerVars, store, updaterVars, loader, clusterer, extraVars>>

RECURSIVE AnalyzedUnits(_)
\* the units of the 'complete' results of the chunks, in chunk order
AnalyzedUnits(source) ==
    IF source = <<>> THEN <<>>
    ELSE analyzeCode(Head(source)).units \o AnalyzedUnits(Tail(source))

RECURSIVE AnalyzedDependencies(_)
\* the dependencies of the 'complete' results of the chunks, in chunk order
AnalyzedDependencies(source) ==
    IF source = <<>> THEN <<>>
    ELSE analyzeCode(Head(source)).dependencies \o AnalyzedDependencies(Tail(source))

\* the analysis results of a source merged into the stores as ingestCode
\* stores what it has collected: putUnitsChunked(units), then
\* putUnitsChunked(dependencies, 'dependencies')
MergeAnalysis(source) ==
    /\ ingest.pc \in {"idle", "done"}
    /\ Len(ingest.sources) < MaxMerges
    /\ store' = StorePutAll(store, Chunk(AnalyzedUnits(source), 0, CHUNK_SIZE))
    /\ depStore' = StorePutAll(depStore,
                               Chunk(AnalyzedDependencies(source), 0, CHUNK_SIZE))
    /\ ingest' = [ingest EXCEPT !.pc = "done",
                                !.unitsCount = Len(AnalyzedUnits(source)),
                                !.sources = Append(@, source)]
    /\ UNCHANGED <<tracerVars, updaterVars, loader, clusterer, extraVars>>

\* chunks as the analyzer sees them: main calling helper once or twice, two
\* functions of one name, mutual calls, a function declaration
ChunkCatalogue ==
    { <<Candidate("main", 1, <<"helper">>, 1), Candidate("helper", 2, <<>>, 1)>>,
      <<Candidate("main", 1, <<"helper", "helper">>, 1),
        Candidate("helper", 2, <<"main">>, 1)>>,
      <<Candidate("helper", 1, <<>>, 1), Candidate("helper", 2, <<"helper">>, 1)>>,
      <<Candidate("anonymous", 1, <<"main">>, 1), Candidate("main", 2, <<>>, 1)>>,
      <<Candidate("main", 2, <<"log">>, 1)>> }

MaxChunks == 2         \* chunks of one source

\* the sources handed to ingestCode: one or more chunks, each of two named
\* functions on consecutive lines with at most one call
Sources ==
    SeqsUpTo({c \in ChunkCatalogue : \A k \in 1..Len(c) : c[k].startLine = k
                                      /\ c[k].name # "anonymous"
                                      /\ Len(c[k].functionCalls) <= 1},
             MaxChunks) \ {<<>>}

InitIngest ==
    /\ TracerInit
    /\ store = EmptyStore
    /\ cycles = <<>>
    /\ timer = "off"
    /\ loader = LoaderIdle
    /\ clusterer = ClustererIdle
    /\ \E b \in BOOLEAN : ingest = [IngestIdle EXCEPT !.inScope = b]
    /\ depStore = EmptyStore
    /\ ExtraIdle

NextIngest ==
    \/ \E source \in Sources : ingestCode(source)
    \/ StartWorker
    \/ WorkerMessage
    \/ \E ok \in BOOLEAN : PersistUnits(ok)
    \/ \E ok \in BOOLEAN : PersistDependencies(ok)

SpecIngest == InitIngest /\ [][NextIngest]_vars

InitMerge ==
    /\ TracerInit
    /\ store = EmptyStore
    /\ cycles = <<>>
    /\ timer = "off"
    /\ RestIdle

NextMerge == \E source \in SeqsUpTo(ChunkCatalogue, 1) \ {<<>>} : MergeAnalysis(source)

SpecMerge == InitMerge /\ [][NextMerge]_vars

----------------------------------------------------------------------------
(* runtimeTracer.js : wrapping with traceFn, traceAllGlobal, traceObject *)

MaxWraps == 3          \* wrapping operations in one behaviour
MaxWrapCalls == 3      \* wrapper invocations in one behaviour of SpecWrap

\* a callable: whether it carries __isTraced, how many traced wrappers an
\* invocation of it runs through, and the unit id its wrapper records
Callable(isTraced, layers, unitId) ==
    [isTraced |-> isTraced, layers |-> layers, unitId |-> unitId]

\* traceFn that wraps whatever it is given
traceFnUnguarded(fn, unitId) == Callable(TRUE, fn.layers + 1, unitId)

\* traceFn(fn, name, unitId): if (fn.__isTraced) return fn; otherwise a new
\* wrapper around fn, marked __isTraced
traceFn(fn, unitId) ==
    IF fn.isTraced THEN fn ELSE Callable(TRUE, fn.layers + 1, unitId)

\* the functions reachable as window[key] and as obj[key]
WindowKeys == {"f"}
ObjectKeys == {"o.m"}

\* unitIdMap[key] || null
UnitIdMap(key) == IF key = "f" THEN "A" ELSE NoUnit

\* one pass over a set of keys: a property is replaced by traceFn(...) unless
\* it is already marked
TracePass(fns, keys) ==
    [key \in DOMAIN fns |->
        IF key \in keys /\ ~fns[key].isTraced
        THEN traceFn(fns[key], UnitIdMap(key))
        ELSE fns[key]]

WrapFrame == <<store, updaterVars, loader, clusterer, ingestVars, api, scan, batch>>

\* traceAllGlobal(unitIdMap)
traceAllGlobal ==
    /\ wrap.inv.phase # "active"
    /\ wrap.wraps < MaxWraps
    /\ wrap' = [wrap EXCEPT !.fns = TracePass(wrap.fns, WindowKeys), !.wraps = @ + 1]
    /\ UNCHANGED <<tracerVars, WrapFrame>>

\* traceObject(obj, prefix, unitIdMap)
traceObject ==
    /\ wrap.inv.phase # "active"
    /\ wrap.wraps < MaxWraps
    /\ wrap' = [wrap EXCEPT !.fns = TracePass(wrap.fns, ObjectKeys), !.wraps = @ + 1]
    /\ UNCHANGED <<tracerVars, WrapFrame>>

\* window[key] = traceFn(window[key], ...) called directly
WrapDirectly(key) ==
    /\ wrap.inv.phase # "active"
    /\ wrap.wraps < MaxWraps
    /\ wrap' = [wrap EXCEPT !.fns[key] = traceFn(@, UnitIdMap(key)), !.wraps = @ + 1]
    /\ UNCHANGED <<tracerVars, WrapFrame>>

\* a caller invokes the callable installed under key
CallInstalled(key) ==
    /\ wrap.inv.phase # "active"
    /\ Len(calls) + wrap.fns[key].layers <= MaxWrapCalls
    /\ wrap' = [wrap EXCEPT !.inv = [phase |-> "active", key |-> key,
                                      traced |-> wrap.fns[key].isTraced,
                                      left |-> wrap.fns[key].layers,
                                      logAt |-> Len(traceLog),
                                      depthAt |-> Len(callStack)]]
    /\ UNCHANGED <<tracerVars, WrapFrame>>

\* the next wrapper of the invoked callable runs up to fn.apply
EnterWrapper ==
    /\ wrap.inv.phase = "active"
    /\ wrap.inv.left > 0
    /\ Invoke(wrap.fns[wrap.inv.key].unitId, MaxWrapCalls)
    /\ wrap' = [wrap EXCEPT !.inv.left = @ - 1]
    /\ UNCHANGED WrapFrame

\* the original function has run; the innermost running wrapper returns, or
\* the call returns to the caller when no wrapper is running
LeaveWrapper ==
    /\ wrap.inv.phase = "active"
    /\ wrap.inv.left = 0
    /\ IF Len(jsStack) > 0
       THEN /\ SyncReturn
            /\ wrap' = [wrap EXCEPT !.inv.phase =
                            IF Len(jsStack) = 1 THEN "over" ELSE "active"]
       ELSE /\ wrap' = [wrap EXCEPT !.inv.phase = "over"]
            /\ UNCHANGED tracerVars
    /\ UNCHANGED WrapFrame

InitWrap ==
    /\ TracerInit
    /\ store = EmptyStore
    /\ cycles = <<>>
    /\ timer = "off"
    /\ loader = LoaderIdle
    /\ clusterer = ClustererIdle
    /\ ingest = IngestIdle
    /\ depStore = EmptyStore
    /\ wrap = [WrapIdle EXCEPT
                 !.fns = [key \in WindowKeys \cup ObjectKeys |->
                             Callable(FALSE, 0, NoUnit)]]
    /\ api = ApiIdle
    /\ scan = ScanIdle
    /\ batch = BatchIdle

NextWrap ==
    \/ traceAllGlobal
    \/ traceObject
    \/ \E key \in WindowKeys \cup ObjectKeys : WrapDirectly(key)
    \/ \E key \in WindowKeys \cup ObjectKeys : CallInstalled(key)
    \/ EnterWrapper
    \/ LeaveWrapper

SpecWrap == InitWrap /\ [][NextWrap]_vars

----------------------------------------------------------------------------
(* db.js : putUnitsChunked, one transaction per chunk *)

MaxBatch == 3          \* records handed to one putUnitsChunked call

\* the value of the key path 'id' of a record that has no id
NoKey == "undefined"

\* the records a caller may hand over
BatchRecords == {[id |-> "u1"], [id |-> "u2"], [id |-> "u3"], [id |-> NoKey]}

\* the chunk sizes used instead of the default of 50, so that a batch of
\* MaxBatch records has several chunks
BatchChunkSizes == {1, 2}

\* store.put(unit) throws DataError when the key path yields no key
PutThrows(unit) == unit.id = NoKey

\* the records of a chunk that were handed to store.put before the first
\* record for which it throws; the whole chunk when it never throws
RECURSIVE PutUntilThrow(_)
PutUntilThrow(chunk) ==
    IF chunk = <<>> \/ PutThrows(Head(chunk)) THEN <<>>
    ELSE <<Head(chunk)>> \o PutUntilThrow(Tail(chunk))

BatchFrame == <<tracerVars, updaterVars, loader, clusterer, ingestVars, wrap, api, scan>>

\* putUnitsChunked(units, storeName, chunkSize) up to the loop test
putUnitsChunked(units, chunkSize) ==
    /\ batch.pc = "idle"
    /\ batch' = [batch EXCEPT !.pc = IF Len(units) = 0 THEN "resolved" ELSE "chunk",
                              !.units = units, !.chunkSize = chunkSize, !.i = 0]
    /\ UNCHANGED <<store, BatchFrame>>

\* loop body up to the await: the transaction is opened and every record of
\* the chunk is handed to store.put; a put that throws leaves the function,
\* whose promise rejects, with the earlier puts of the chunk still queued in
\* the open transaction
OpenChunk ==
    /\ batch.pc = "chunk"
    /\ LET chunk == Chunk(batch.units, batch.i, batch.chunkSize)
           queued == PutUntilThrow(chunk)
       IN batch' = [batch EXCEPT
                       !.queued = queued,
                       !.pc = IF Len(queued) = Len(chunk) THEN "awaiting" ELSE "threw",
                       !.failedAt = IF Len(queued) = Len(chunk) THEN @ ELSE batch.i]
    /\ UNCHANGED <<store, BatchFrame>>

\* tx.oncomplete: the queued puts are committed, the loop goes on
TxComplete ==
    /\ batch.pc = "awaiting"
    /\ store' = StorePutAll(store, batch.queued)
    /\ batch' = [batch EXCEPT
                    !.queued = <<>>,
                    !.i = @ + batch.chunkSize,
                    !.pc = IF batch.i + batch.chunkSize < Len(batch.units)
                           THEN "chunk" ELSE "resolved"]
    /\ UNCHANGED BatchFrame

\* a put request fails: its error event reaches tx.onerror, the promise
\* rejects and the transaction is aborted
TxError ==
    /\ batch.pc = "awaiting"
    /\ batch' = [batch EXCEPT !.queued = <<>>, !.pc = "rejected", !.failedAt = batch.i]
    /\ UNCHANGED <<store, BatchFrame>>

\* the transaction is aborted without a request error (the commit fails, for
\* instance on exceeded quota): only the abort event fires, for which no
\* handler is set, so the awaited promise is never settled
TxAbort ==
    /\ batch.pc = "awaiting"
    /\ batch' = [batch EXCEPT !.queued = <<>>, !.pc = "pending", !.failedAt = batch.i]
    /\ UNCHANGED <<store, BatchFrame>>

\* the transaction left open by a put that threw has no handler that aborts
\* it: it commits the puts queued before the throw
CommitAfterThrow ==
    /\ batch.pc = "threw"
    /\ store' = StorePutAll(store, batch.queued)
    /\ batch' = [batch EXCEPT !.queued = <<>>, !.pc = "rejected"]
    /\ UNCHANGED BatchFrame

\* the batches handed over: records with pairwise different ids
Batches ==
    {q \in SeqsUpTo(BatchRecords, MaxBatch) :
        \A j, k \in 1..Len(q) : j # k => q[j].id # q[k].id}

InitBatch ==
    /\ TracerInit
    /\ store = EmptyStore
    /\ cycles = <<>>
    /\ timer = "off"
    /\ loader = LoaderIdle
    /\ clusterer = ClustererIdle
    /\ ingest = IngestIdle
    /\ depStore = EmptyStore
    /\ wrap = WrapIdle
    /\ api = ApiIdle
    /\ scan = ScanIdle
    /\ batch = BatchIdle

NextBatch ==
    \/ \E units \in Batches, chunkSize \in BatchChunkSizes :
          putUnitsChunked(units, chunkSize)
    \/ OpenChunk
    \/ TxComplete
    \/ TxError
    \/ TxAbort
    \/ CommitAfterThrow

SpecBatch == InitBatch /\ [][NextBatch]_vars

----------------------------------------------------------------------------
(* staticAnalyzerWorker.js : findMatchingBracket, extractFunction and the
   character scan of analyzeCode; a text is the sequence of its characters,
   positions counted from 0 as in the code *)

MaxLineOffset == 1     \* line offsets 0..MaxLineOffset handed to analyzeCode

\* code[p] past either end of the text
NoChar == ""

\* code[p]
CharAt(code, p) == IF p >= 0 /\ p < Len(code) THEN code[p + 1] ELSE NoChar

\* code.substring(from, to), 0 <= from
Substring(code, from, to) == SubSeq(code, from + 1, Min(to, Len(code)))

RECURSIVE Join(_)
\* the string made of the characters of q
Join(q) == IF q = <<>> THEN "" ELSE Head(q) \o Join(Tail(q))

LowerCase == {"a", "b", "c", "d", "e", "f", "g", "h", "i", "j", "k", "l", "m",
              "n", "o", "p", "q", "r", "s", "t", "u", "v", "w", "x", "y", "z"}
UpperCase == {"A", "B", "C", "D", "E", "F", "G", "H", "I", "J", "K", "L", "M",
              "N", "O", "P", "Q", "R", "S", "T", "U", "V", "W", "X", "Y", "Z"}
Digits == {"0", "1", "2", "3", "4", "5", "6", "7", "8", "9"}

\* /[a-zA-Z_$]/
IsNameStart(c) == c \in LowerCase \cup UpperCase \cup {"_", "$"}

\* /[a-zA-Z0-9_$]/
IsNameChar(c) == IsNameStart(c) \/ c \in Digits

\* /\s/
IsSpace(c) == c \in {" ", "\n", "\t", "\r"}

RECURSIVE NameEnd(_, _)
\* the end of [a-zA-Z0-9_$]* matched greedily from p
NameEnd(code, p) == IF IsNameChar(CharAt(code, p)) THEN NameEnd(code, p + 1) ELSE p

RECURSIVE SpaceEnd(_, _)
\* the end of \s* matched greedily from p
SpaceEnd(code, p) == IF IsSpace(CharAt(code, p)) THEN SpaceEnd(code, p + 1) ELSE p

RECURSIVE FindBracket(_, _, _, _, _)
\* the while loop of findMatchingBracket at position pos with depth
FindBracket(code, pos, depth, openBracket, closeBracket) ==
    IF pos < Len(code) /\ depth > 0
    THEN FindBracket(code, pos + 1,
                     IF CharAt(code, pos) = openBracket THEN depth + 1
                     ELSE IF CharAt(code, pos) = closeBracket THEN depth - 1
                     ELSE depth,
                     openBracket, closeBracket)
    ELSE IF depth = 0 THEN pos - 1 ELSE -1

findMatchingBracket(code, startPos, openBracket, closeBracket) ==
    FindBracket(code, startPos, 1, openBracket, closeBracket)

RECURSIVE IndexOf(_, _, _)
\* code.indexOf(c, from)
IndexOf(code, c, from) ==
    IF from >= Len(code) THEN -1
    ELSE IF CharAt(code, from) = c THEN from
    ELSE IndexOf(code, c, from + 1)

\* /([a-zA-Z_$][a-zA-Z0-9_$]*)\s*\(/ matches at p
CallAt(code, p) ==
    /\ IsNameStart(CharAt(code, p))
    /\ CharAt(code, SpaceEnd(code, NameEnd(code, p))) = "("

\* the names the call loop of extractFunction does not push
NotCalls == {"function", "if", "for", "while", "switch"}

RECURSIVE FunctionCalls(_, _)
\* while ((callMatch = callRegex.exec(functionBody)) !== null), with
\* callRegex.lastIndex = from
FunctionCalls(functionBody, from) ==
    IF from >= Len(functionBody) THEN <<>>
    ELSE IF CallAt(functionBody, from)
    THEN LET e == NameEnd(functionBody, from)
             called == Join(Substring(functionBody, from, e))
         IN (IF called \in NotCalls THEN <<>> ELSE <<called>>)
            \o FunctionCalls(functionBody, SpaceEnd(functionBody, e) + 1)
    ELSE FunctionCalls(functionBody, from + 1)

\* the declaration keywords of the arrow pattern, as characters
DeclarationWords == {<<"c", "o", "n", "s", "t">>, <<"l", "e", "t">>, <<"v", "a", "r">>}

\* /(?:const|let|var)\s+([a-zA-Z_$][a-zA-Z0-9_$]*)\s*=/ matches at p with the
\* keyword w
AssignmentAt(text, p, w) ==
    LET q == p + Len(w)
        r == SpaceEnd(text, q)
    IN /\ Substring(text, p, q) = w
       /\ r > q
       /\ IsNameStart(CharAt(text, r))
       /\ CharAt(text, SpaceEnd(text, NameEnd(text, r))) = "="

RECURSIVE AssignedName(_, _)
\* group 1 of the first match of the arrow pattern in text from p on;
\* 'anonymous' without a match
AssignedName(text, p) ==
    IF p >= Len(text) THEN "anonymous"
    ELSE IF \E w \in DeclarationWords : AssignmentAt(text, p, w)
    THEN LET w == CHOOSE v \in DeclarationWords : AssignmentAt(text, p, v)
             r == SpaceEnd(text, p + Len(w))
         IN Join(Substring(text, r, NameEnd(text, r)))
    ELSE AssignedName(text, p + 1)

\* the name extractFunction gives: for 'function' and 'method' nameMatch is a
\* regular expression that is never executed, so nameMatch[1] is undefined
FunctionName(code, startPos, type) ==
    IF type = "arrow"
    THEN AssignedName(Substring(code, IF startPos > 100 THEN startPos - 100 ELSE 0,
                                startPos), 0)
    ELSE "anonymous"

\* (text.match(/\n/g) || []).length of the first n characters
NewLines(code, n) == Cardinality({p \in 1..n : code[p] = "\n"})

\* extractFunction(code, startPos, type, lineOffset): the unit in a sequence
\* of one element, the empty sequence for null
extractFunction(code, startPos, type, lineOffset) ==
    LET openBracketPos == IndexOf(code, "{", startPos)
        closeBracketPos == IF openBracketPos = -1 THEN -1
                           ELSE findMatchingBracket(code, openBracketPos + 1, "{", "}")
        functionBody == Substring(code, openBracketPos, closeBracketPos + 1)
    IN IF openBracketPos = -1 \/ closeBracketPos = -1 THEN <<>>
       ELSE <<ExtractedUnit(Candidate(FunctionName(code, startPos, type),
                                      lineOffset + NewLines(code, openBracketPos),
                                      FunctionCalls(functionBody, 0),
                                      closeBracketPos + 1 - startPos))>>

RECURSIVE BackOverSpace(_, _)
\* while (j >= 0 && /\s/.test(codeChunk[j])) j--
BackOverSpace(code, j) ==
    IF j >= 0 /\ IsSpace(CharAt(code, j)) THEN BackOverSpace(code, j - 1) ELSE j

RECURSIVE BackOverName(_, _)
\* while (j >= 0 && /[a-zA-Z0-9_$]/.test(codeChunk[j])) j--
BackOverName(code, j) ==
    IF j >= 0 /\ IsNameChar(CharAt(code, j)) THEN BackOverName(code, j - 1) ELSE j

FunctionWord == <<"f", "u", "n", "c", "t", "i", "o", "n">>

\* the units one iteration of the scan pushes at position i outside comments
\* and strings
FoundAt(code, i, lineOffset) ==
    IF Substring(code, i, i + 8) = FunctionWord
    THEN extractFunction(code, i, "function", lineOffset)
    ELSE IF Substring(code, i, i + 2) = <<"=", ">">>
    THEN LET j == BackOverSpace(code, i - 1)
             openParenPos == findMatchingBracket(code, j - 1, ")", "(")
         IN IF CharAt(code, j) = ")" /\ openParenPos # -1
            THEN extractFunction(code, openParenPos, "arrow", lineOffset)
            ELSE <<>>
    ELSE IF i > 0 /\ CharAt(code, i) = "(" /\ IsNameStart(CharAt(code, i - 1))
    THEN LET j == BackOverName(code, i - 1)
         IN IF j >= 0 /\ CharAt(code, j) # "."
            THEN extractFunction(code, j + 1, "method", lineOffset)
            ELSE <<>>
    ELSE <<>>

\* the backquote character, which a string of this notation cannot hold
BackQuote == "backquote"

Quotes == {"\"", "'", BackQuote}

\* one iteration of the for loop of analyzeCode, i++ included
ScanIteration(s) ==
    LET c == CharAt(s.code, s.i)
        n == CharAt(s.code, s.i + 1)
        s1 == IF ~s.inString /\ s.inSingleLineComment /\ c = "\n"
              THEN [s EXCEPT !.inSingleLineComment = FALSE] ELSE s
    IN IF ~s.inString /\ c = "/" /\ n = "/"
       THEN [s EXCEPT !.inSingleLineComment = TRUE, !.i = @ + 2]
       ELSE IF ~s.inString /\ c = "/" /\ n = "*"
       THEN [s EXCEPT !.inMultiLineComment = TRUE, !.i = @ + 2]
       ELSE IF /\ ~s.inString
               /\ ~(s.inSingleLineComment /\ c = "\n")
               /\ s.inMultiLineComment /\ c = "*" /\ n = "/"
       THEN [s EXCEPT !.inMultiLineComment = FALSE, !.i = @ + 2]
       ELSE IF ~s1.inString /\ (s1.inSingleLineComment \/ s1.inMultiLineComment)
       THEN [s1 EXCEPT !.i = @ + 1]
       ELSE IF c \in Quotes /\ (s.i = 0 \/ CharAt(s.code, s.i - 1) # "\\")
       THEN IF ~s1.inString
            THEN [s1 EXCEPT !.inString = TRUE, !.stringChar = c, !.i = @ + 1]
            ELSE IF c = s1.stringChar
            THEN [s1 EXCEPT !.inString = FALSE, !.i = @ + 1]
            ELSE [s1 EXCEPT !.i = @ + 1]
       ELSE IF s1.inString
       THEN [s1 EXCEPT !.i = @ + 1]
       ELSE [s1 EXCEPT !.units = @ \o FoundAt(s.code, s.i, s.lineOffset), !.i = @ + 1]

ScanFrame == <<tracerVars, store, updaterVars, loader, clusterer, ingestVars, wrap, api, batch>>

\* analyzeCode(codeChunk, lineOffset) up to the loop
StartScan(code, lineOffset) ==
    /\ scan.pc = "idle"
    /\ scan' = [ScanIdle EXCEPT !.pc = "scanning", !.code = code,
                                !.lineOffset = lineOffset]
    /\ UNCHANGED ScanFrame

\* one iteration of the character loop
ScanCharacter ==
    /\ scan.pc = "scanning"
    /\ scan.i < Len(scan.code)
    /\ scan' = ScanIteration(scan)
    /\ UNCHANGED ScanFrame

\* after the loop: the dependency records are built and the result returned
BuildDependencies ==
    /\ scan.pc = "scanning"
    /\ scan.i >= Len(scan.code)
    /\ scan' = [scan EXCEPT !.pc = "done", !.dependencies = Dependencies(scan.units, 1)]
    /\ UNCHANGED ScanFrame

\* `function a(){ b(); } function b(){}`
TwoDeclarations ==
    <<"f", "u", "n", "c", "t", "i", "o", "n", " ", "a", "(", ")", "{", " ",
      "b", "(", ")", ";", " ", "}", " ", "f", "u", "n", "c", "t", "i", "o",
      "n", " ", "b", "(", ")", "{", "}">>

\* `function a(){}`
OneDeclaration ==
    <<"f", "u", "n", "c", "t", "i", "o", "n", " ", "a", "(", ")", "{", "}">>

\* `function b(){}` and `function a(){ b(); }` on two lines
DeclarationsOnTwoLines ==
    <<"f", "u", "n", "c", "t", "i", "o", "n", " ", "b", "(", ")", "{", "}",
      "\n", "f", "u", "n", "c", "t", "i", "o", "n", " ", "a", "(", ")",
      "{", " ", "b", "(", ")", ";", " ", "}">>

\* `const f = () => {}`
OneArrow ==
    <<"c", "o", "n", "s", "t", " ", "f", " ", "=", " ", "(", ")", " ", "=",
      ">", " ", "{", "}">>

\* a line comment, a string, a block comment, a method call and an arrow function
CommentsAndStrings ==
    <<"/", "/", " ", "a", "(", "\n", "\"", "b", "(", "\"", " ", "/", "*",
      " ", "c", "(", " ", "*", "/", " ", "x", ".", "y", "(", ")", ";", " ",
      "v", "a", "r", " ", "g", " ", "=", " ", "(", ")", " ", "=", ">", " ",
      "{", " ", "i", "f", " ", "(", "g", ")", " ", "h", "(", ")", ";", " ",
      "}">>

\* `function a(){ b(`, whose bracket is never closed
Unclosed ==
    <<"f", "u", "n", "c", "t", "i", "o", "n", " ", "a", "(", ")", "{", " ",
      "b", "(">>

\* `function f(){x="}";}`: a closing brace inside a string of the body
BraceInString ==
    <<"f", "u", "n", "c", "t", "i", "o", "n", " ", "f", "(", ")", "{", "x",
      "=", "\"", "}", "\"", ";", "}">>

\* `function f(){/*}*/}`: a closing brace inside a comment of the body
BraceInComment ==
    <<"f", "u", "n", "c", "t", "i", "o", "n", " ", "f", "(", ")", "{", "/",
      "*", "}", "*", "/", "}">>

\* `()=>{}`: an arrow function that nothing names
NamelessArrow ==
    <<"(", ")", "=", ">", "{", "}">>

\* `function a(){function b(){}`: the brace of a is never closed, b is whole
UnclosedThenClosed ==
    <<"f", "u", "n", "c", "t", "i", "o", "n", " ", "a", "(", ")", "{", "f",
      "u", "n", "c", "t", "i", "o", "n", " ", "b", "(", ")", "{", "}">>

\* the texts handed to analyzeCode
SourceTexts == {TwoDeclarations, OneDeclaration, DeclarationsOnTwoLines, OneArrow,
                CommentsAndStrings, Unclosed, BraceInString, BraceInComment,
                NamelessArrow, UnclosedThenClosed}

InitScan ==
    /\ TracerInit
    /\ store = EmptyStore
    /\ cycles = <<>>
    /\ timer = "off"
    /\ loader = LoaderIdle
    /\ clusterer = ClustererIdle
    /\ ingest = IngestIdle
    /\ depStore = EmptyStore
    /\ wrap = WrapIdle
    /\ api = ApiIdle
    /\ scan = ScanIdle
    /\ batch = BatchIdle

NextScan ==
    \/ \E code \in SourceTexts, lineOffset \in 0..MaxLineOffset :
          StartScan(code, lineOffset)
    \/ ScanCharacter
    \/ BuildDependencies

SpecScan == InitScan /\ [][NextScan]_vars

----------------------------------------------------------------------------
(* aiInterface.js : handleAIRequest and its handlers; every text of this
   part (ids, names, code, types) is the sequence of its characters *)

MaxRequests == 2       \* requests handled in one behaviour
MaxUpdates == 3        \* requests handled in one behaviour of SpecUpdate
MaxCriteria == 2       \* criteria of one structured query

\* values of a request field, tagged with their JavaScript type
Str(text) == [type |-> "string", text |-> text]
Bool(b) == [type |-> "boolean", b |-> b]
Null == [type |-> "null"]
Undef == [type |-> "undefined"]

\* !value
Falsy(v) ==
    \/ v.type \in {"null", "undefined"}
    \/ v.type = "string" /\ v.text = <<>>
    \/ v.type = "boolean" /\ ~v.b

\* what a call comes to: a returned value, a thrown one, or a promise that
\* is never settled
Return(v) == [kind |-> "return", value |-> v]
Throw(t) == [kind |-> "throw", thrown |-> t]
NeverSettles == [kind |-> "pending"]

\* the values thrown: an Error with a message, a string, null
ErrorThrown(message) == [is |-> "Error", message |-> message]
StringThrown == [is |-> "string"]
NullThrown == [is |-> "null"]

\* an error message
ErrorMessage(m) == [type |-> "string", message |-> m]

\* reading .message of a caught value: a TypeError for null, undefined for a
\* string
MessageOf(t) ==
    IF t.is = "null" THEN Throw(ErrorThrown("TypeError"))
    ELSE IF t.is = "Error" THEN Return(ErrorMessage(t.message))
    ELSE Return(Undef)

\* { success: false, error }
Failure(error) == [success |-> FALSE, error |-> error]

\* { success: true, ...payload }
Success(payload) == [success |-> TRUE, payload |-> payload]

\* what a handler comes to, with the store and the pending updates it leaves
Handled(outcome, st, pending) == [outcome |-> outcome, store |-> st, pending |-> pending]

\* the units of the store
Text_u1 == <<"u", "1">>
Text_u2 == <<"u", "2">>
Text_u3 == <<"u", "3">>
Text_c1 == <<"c", "1">>
Text_Foo == <<"F", "o", "o">>
Text_bar == <<"b", "a", "r">>
Text_baz == <<"b", "a", "z">>
Text_function == <<"f", "u", "n", "c", "t", "i", "o", "n">>
Text_arrow == <<"a", "r", "r", "o", "w">>
Text_src == <<"s", "r", "c">>
Text_lib == <<"l", "i", "b">>

\* unit.metadata: description and tests, '' and [] where the unit has none
Metadata(description, tests, lastUpdated) ==
    [description |-> description, tests |-> tests, lastUpdated |-> lastUpdated]

NoMetadata == Metadata(<<>>, <<>>, "never")

ApiUnits ==
    <<[id |-> Text_u1, name |-> Text_Foo, code |-> <<"b", "a", "r", "(", ")">>,
       type |-> Text_function, clusterId |-> Str(Text_c1),
       staticDependencies |-> <<Text_bar>>, dynamicRelationships |-> <<>>,
       originalSource |-> Text_src,
       metadata |-> Metadata(<<"A", " ", "f", "o", "o">>, <<"t">>, "never")],
      [id |-> Text_u2, name |-> Text_bar, code |-> <<"B", "a", "z">>,
       type |-> Text_arrow, clusterId |-> Str(Text_c1),
       staticDependencies |-> <<>>,
       dynamicRelationships |-> <<[targetId |-> Text_u3, frequency |-> 1]>>,
       originalSource |-> Text_src, metadata |-> NoMetadata],
      [id |-> Text_u3, name |-> Text_baz, code |-> <<"1">>,
       type |-> Text_function, clusterId |-> Null,
       staticDependencies |-> <<Text_Foo>>, dynamicRelationships |-> <<>>,
       originalSource |-> Text_lib, metadata |-> NoMetadata]>>

\* the keys of the store in ascending order
ApiKeyOrder == <<Text_u1, Text_u2, Text_u3>>

\* getAllUnits() of aiInterface.js: store.getAll(), or the failed request
getAllOutcome(st, storeFails) ==
    IF storeFails THEN Throw(ErrorThrown("DOMException"))
    ELSE LET keys == SelectSeq(ApiKeyOrder, LAMBDA k : k \in DOMAIN st)
         IN Return([k \in 1..Len(keys) |-> st[keys[k]]])

\* getUnit(id): store.get throws DataError for a key that is no valid key,
\* the request fails when the store does; the unit in a sequence of one
\* element, the empty sequence for undefined
getUnitOutcome(st, id, storeFails) ==
    IF id.type # "string" \/ storeFails THEN Throw(ErrorThrown("DOMException"))
    ELSE IF id.text \in DOMAIN st THEN Return(<<st[id.text]>>)
    ELSE Return(<<>>)

\* getUnitsByCluster(clusterId): index.getAll(clusterId)
getUnitsByClusterOutcome(st, clusterId, storeFails) ==
    IF clusterId.type # "string" \/ storeFails THEN Throw(ErrorThrown("DOMException"))
    ELSE LET keys == SelectSeq(ApiKeyOrder,
                               LAMBDA k : k \in DOMAIN st /\ st[k].clusterId = clusterId)
         IN Return([k \in 1..Len(keys) |-> st[keys[k]]])

handleGetUnit(request, st, pending, env) ==
    IF Falsy(request.id)
    THEN Handled(Return(Failure(ErrorMessage("Unit ID is required"))), st, pending)
    ELSE LET unit == getUnitOutcome(st, request.id, env.storeFails)
         IN IF unit.kind = "throw" THEN Handled(unit, st, pending)
            ELSE IF unit.value = <<>>
            THEN Handled(Return(Failure(ErrorMessage("Unit not found"))), st, pending)
            ELSE Handled(Return(Success(unit.value)), st, pending)

handleGetCluster(request, st, pending, env) ==
    IF Falsy(request.id)
    THEN Handled(Return(Failure(ErrorMessage("Cluster ID is required"))), st, pending)
    ELSE LET units == getUnitsByClusterOutcome(st, request.id, env.storeFails)
         IN IF units.kind = "throw" THEN Handled(units, st, pending)
            ELSE IF units.value = <<>>
            THEN Handled(Return(Failure(ErrorMessage("No units found in cluster"))), st, pending)
            ELSE Handled(Return(Success(units.value)), st, pending)

handleGetDependencies(request, st, pending, env) ==
    IF Falsy(request.id)
    THEN Handled(Return(Failure(ErrorMessage("Unit ID is required"))), st, pending)
    ELSE LET unit == getUnitOutcome(st, request.id, env.storeFails)
         IN IF unit.kind = "throw" THEN Handled(unit, st, pending)
            ELSE IF unit.value = <<>>
            THEN Handled(Return(Failure(ErrorMessage("Unit not found"))), st, pending)
            ELSE Handled(Return(Success([static |-> unit.value[1].staticDependencies,
                                         dynamic |-> unit.value[1].dynamicRelationships])),
                         st, pending)

\* pendingUpdates.set(key, update)
MapSet(pending, key, update) ==
    [k \in (DOMAIN pending) \cup {key} |-> IF k = key THEN update ELSE pending[k]]

\* pendingUpdates.delete(key)
MapDelete(pending, key) == [k \in (DOMAIN pending) \ {key} |-> pending[k]]

handleProposeUpdate(request, st, pending, env) ==
    IF Falsy(request.id) \/ Falsy(request.newCode)
    THEN Handled(Return(Failure(ErrorMessage("Unit ID and new code are required"))), st, pending)
    ELSE LET unit == getUnitOutcome(st, request.id, env.storeFails)
         IN IF unit.kind = "throw" THEN Handled(unit, st, pending)
            ELSE IF unit.value = <<>>
            THEN Handled(Return(Failure(ErrorMessage("Unit not found"))), st, pending)
            ELSE LET set == MapSet(pending, request.id,
                                   [type |-> "single_update", newCode |-> request.newCode,
                                    newTests |-> request.newTests])
                 IN Handled(Return(Success(Cardinality(DOMAIN set))), st, set)

\* runTests(unitId): the unit and its bundle are loaded and each test run in
\* a try block whose catch reads error.message
runTestsOutcome(st, id, env) ==
    LET unit == getUnitOutcome(st, id, env.storeFails)
    IN IF unit.kind = "throw" THEN unit
       ELSE IF unit.value = <<>> THEN Throw(ErrorThrown("Unit not found"))
       ELSE IF unit.value[1].metadata.tests = <<>> THEN Return("No tests found for this unit")
       ELSE IF env.bundle.kind = "return" THEN Return("passed")
       ELSE LET message == MessageOf(env.bundle.thrown)
            IN IF message.kind = "throw" THEN message ELSE Return("errors")

handleRunTests(request, st, pending, env) ==
    IF Falsy(request.id)
    THEN Handled(Return(Failure(ErrorMessage("Unit ID is required"))), st, pending)
    ELSE LET testResults == runTestsOutcome(st, request.id, env)
         IN IF testResults.kind = "throw" THEN Handled(testResults, st, pending)
            ELSE Handled(Return(Success(testResults.value)), st, pending)

\* loadAndExecute rethrows what the bundle threw; the catch of
\* handlePreviewExecution reads err.message
handlePreviewExecution(request, st, pending, env) ==
    IF Falsy(request.entryPointId)
    THEN Handled(Return(Failure(ErrorMessage("Entry point ID is required"))), st, pending)
    ELSE IF env.bundle.kind = "return"
    THEN Handled(Return(Success(env.bundle.value)), st, pending)
    ELSE LET message == MessageOf(env.bundle.thrown)
         IN IF message.kind = "throw" THEN Handled(message, st, pending)
            ELSE Handled(Return(Failure([type |-> "object", message |-> message.value])),
                         st, pending)

\* putUnitsChunked([unit]) as awaited by a handler: the transaction
\* completes, fails with a request error, or is aborted without one
putOutcome(put) ==
    IF put = "complete" THEN Return(TRUE)
    ELSE IF put = "error" THEN Throw(ErrorThrown("DOMException"))
    ELSE NeverSettles

\* the unit handleApplyUpdate writes
UpdatedUnit(unit, update) ==
    [unit EXCEPT !.code = update.newCode.text,
                 !.metadata = Metadata(@.description,
                                       IF Falsy(update.newTests) THEN @.tests
                                       ELSE Append(@.tests, "t"),
                                       "now")]

\* handleApplyUpdate that writes the update although no unit is stored
handleApplyUpdateCreating(request, st, pending, env) ==
    IF Falsy(request.id) \/ request.id.type # "string"
    THEN Handled(Return(Failure(ErrorMessage("Unit ID is required"))), st, pending)
    ELSE Handled(Return(Success(Cardinality(DOMAIN pending))),
                 StorePut(st, [ApiUnits[1] EXCEPT !.id = request.id.text]), pending)

\* handleApplyUpdate that discards the plan it refuses to apply
handleApplyUpdateDroppingPlan(request, st, pending, env) ==
    IF Falsy(request.id)
    THEN Handled(Return(Failure(ErrorMessage("Unit ID is required"))), st, pending)
    ELSE IF request.id \notin DOMAIN pending
    THEN Handled(Return(Failure(ErrorMessage("No pending update found for unit"))), st, pending)
    ELSE IF pending[request.id].type = "plan"
    THEN Handled(Return(Failure(ErrorMessage("This is a plan, use applyPlan command"))), st,
                 MapDelete(pending, request.id))
    ELSE LET unit == getUnitOutcome(st, request.id, env.storeFails)
         IN IF unit.kind = "throw" THEN Handled(unit, st, pending)
            ELSE IF unit.value = <<>>
            THEN Handled(Return(Failure(ErrorMessage("Unit not found"))), st,
                         MapDelete(pending, request.id))
            ELSE LET put == putOutcome(env.put)
                     deleted == MapDelete(pending, request.id)
                 IN IF put.kind # "return" THEN Handled(put, st, pending)
                    ELSE Handled(Return(Success(Cardinality(DOMAIN deleted))),
                                 StorePut(st, UpdatedUnit(unit.value[1], pending[request.id])),
                                 deleted)

\* handleApplyUpdate without pendingUpdates.delete(id) after the write
handleApplyUpdateKeepingPending(request, st, pending, env) ==
    IF Falsy(request.id)
    THEN Handled(Return(Failure(ErrorMessage("Unit ID is required"))), st, pending)
    ELSE IF request.id \notin DOMAIN pending
    THEN Handled(Return(Failure(ErrorMessage("No pending update found for unit"))), st, pending)
    ELSE IF pending[request.id].type = "plan"
    THEN Handled(Return(Failure(ErrorMessage("This is a plan, use applyPlan command"))), st, pending)
    ELSE LET unit == getUnitOutcome(st, request.id, env.storeFails)
         IN IF unit.kind = "throw" THEN Handled(unit, st, pending)
            ELSE IF unit.value = <<>>
            THEN Handled(Return(Failure(ErrorMessage("Unit not found"))), st,
                         MapDelete(pending, request.id))
            ELSE LET put == putOutcome(env.put)
                 IN IF put.kind # "return" THEN Handled(put, st, pending)
                    ELSE Handled(Return(Success(Cardinality(DOMAIN pending))),
                                 StorePut(st, UpdatedUnit(unit.value[1], pending[request.id])),
                                 pending)

handleApplyUpdate(request, st, pending, env) ==
    IF Falsy(request.id)
    THEN Handled(Return(Failure(ErrorMessage("Unit ID is required"))), st, pending)
    ELSE IF request.id \notin DOMAIN pending
    THEN Handled(Return(Failure(ErrorMessage("No pending update found for unit"))), st, pending)
    ELSE IF pending[request.id].type = "plan"
    THEN Handled(Return(Failure(ErrorMessage("This is a plan, use applyPlan command"))), st, pending)
    ELSE LET unit == getUnitOutcome(st, request.id, env.storeFails)
         IN IF unit.kind = "throw" THEN Handled(unit, st, pending)
            ELSE IF unit.value = <<>>
            THEN Handled(Return(Failure(ErrorMessage("Unit not found"))), st,
                         MapDelete(pending, request.id))
            ELSE LET put == putOutcome(env.put)
                     deleted == MapDelete(pending, request.id)
                 IN IF put.kind # "return" THEN Handled(put, st, pending)
                    ELSE Handled(Return(Success(Cardinality(DOMAIN deleted))),
                                 StorePut(st, UpdatedUnit(unit.value[1], pending[request.id])),
                                 deleted)

\* handleProposePlan: request.plan is "missing", "invalid" (a step without
\* action or details, or with an unknown action) or "valid"
handleProposePlan(request, st, pending, env) ==
    IF request.plan = "missing"
    THEN Handled(Return(Failure(ErrorMessage("Missing or invalid plan array"))), st, pending)
    ELSE IF Falsy(request.description)
    THEN Handled(Return(Failure(ErrorMessage("Missing plan description"))), st, pending)
    ELSE IF request.plan = "invalid"
    THEN Handled(Return(Failure(ErrorMessage("Invalid step structure"))), st, pending)
    ELSE LET planId == IF Falsy(request.planId) THEN Str(<<"p", "l", "a", "n">>)
                       ELSE request.planId
             set == MapSet(pending, planId, [type |-> "plan"])
         IN Handled(Return(Success(Cardinality(DOMAIN set))), st, set)

\* handleImportFromGithub up to the call of ingestCode: env.github is what
\* fetching comes to
handleImportFromGithub(request, st, pending, env) ==
    IF Falsy(request.repoUrl)
    THEN Handled(Return(Failure(ErrorMessage("GitHub repository URL (repoUrl) is required."))),
                 st, pending)
    ELSE IF env.github.kind = "return"
    THEN Handled(Return(Failure(ErrorMessage(env.github.value))), st, pending)
    ELSE LET message == MessageOf(env.github.thrown)
         IN IF message.kind = "throw" THEN Handled(message, st, pending)
            ELSE Handled(Return(Failure(ErrorMessage("An unexpected error occurred"))), st, pending)

\* String.prototype.includes
Contains(text, part) ==
    \E k \in 0..(Len(text) - Len(part)) : SubSeq(text, k + 1, k + Len(part)) = part

LowerOf ==
    [A |-> "a", B |-> "b", C |-> "c", D |-> "d", E |-> "e", F |-> "f", G
     |-> "g", H |-> "h", I |-> "i", J |-> "j", K |-> "k", L |-> "l", M |->
     "m", N |-> "n", O |-> "o", P |-> "p", Q |-> "q", R |-> "r", S |-> "s",
     T |-> "t", U |-> "u", V |-> "v", W |-> "w", X |-> "x", Y |-> "y", Z
     |-> "z"]

\* String.prototype.toLowerCase
ToLowerCase(text) ==
    [k \in 1..Len(text) |-> IF text[k] \in UpperCase THEN LowerOf[text[k]] ELSE text[k]]

\* String(value)
StringOf(v) ==
    IF v.type = "string" THEN v.text
    ELSE IF v.type = "boolean"
    THEN (IF v.b THEN <<"t", "r", "u", "e">> ELSE <<"f", "a", "l", "s", "e">>)
    ELSE IF v.type = "null" THEN <<"n", "u", "l", "l">>
    ELSE <<"u", "n", "d", "e", "f", "i", "n", "e", "d">>

\* text === value
StrictEquals(text, v) == v.type = "string" /\ v.text = text

\* value === undefined || value === null ||
\* (typeof value === 'string' && value.trim() === '')
EmptyFilter(v) ==
    \/ v.type \in {"undefined", "null"}
    \/ v.type = "string" /\ \A k \in 1..Len(v.text) : IsSpace(v.text[k])

\* the ids a dependsOn / dependencyOf value stands for: the value itself when
\* it is the id of a unit, else the ids of the units of that name
IdsMeant(allUnits, v) ==
    IF \E k \in 1..Len(allUnits) : StrictEquals(allUnits[k].id, v)
    THEN <<v.text>>
    ELSE LET named == SelectSeq(allUnits, LAMBDA u : StrictEquals(u.name, v))
         IN [k \in 1..Len(named) |-> named[k].id]

\* allUnits.filter(u => ids.includes(u.id)).map(u => u.name)
NamesOf(allUnits, ids) ==
    LET chosen == SelectSeq(allUnits, LAMBDA u : Includes(ids, u.id))
    IN [k \in 1..Len(chosen) |-> chosen[k].name]

\* the filter callback of case 'dependsOn'
DependsOnAny(unit, targetIds, targetNames) ==
    \/ \E k \in 1..Len(unit.staticDependencies) :
          Includes(targetNames, unit.staticDependencies[k])
    \/ \E k \in 1..Len(unit.dynamicRelationships) :
          Includes(targetIds, unit.dynamicRelationships[k].targetId)

\* the filter callback of case 'dependencyOf'
DependencyOfAny(currentUnit, allUnits, sourceIds) ==
    \E s \in 1..Len(sourceIds) :
       \E k \in 1..Len(allUnits) :
          /\ allUnits[k].id = sourceIds[s]
          /\ \A m \in 1..(k - 1) : allUnits[m].id # sourceIds[s]
          /\ \/ Includes(allUnits[k].staticDependencies, currentUnit.name)
             \/ \E r \in 1..Len(allUnits[k].dynamicRelationships) :
                   allUnits[k].dynamicRelationships[r].targetId = currentUnit.id

\* one step of the loop over the keys that always starts from all units
ApplyCriterionToAll(filteredUnits, allUnits, key, v) ==
    IF key = "id" THEN SelectSeq(allUnits, LAMBDA unit : StrictEquals(unit.id, v))
    ELSE IF key = "ofType" THEN SelectSeq(allUnits, LAMBDA unit : StrictEquals(unit.type, v))
    ELSE IF key = "memberOfCluster" THEN SelectSeq(allUnits, LAMBDA unit : unit.clusterId = v)
    ELSE IF key = "originalSource"
    THEN SelectSeq(allUnits, LAMBDA unit : StrictEquals(unit.originalSource, v))
    ELSE allUnits

\* the switch of the loop over the keys of a structured query
ApplyCriterion(filteredUnits, allUnits, key, v) ==
    CASE key = "id" ->
            SelectSeq(filteredUnits, LAMBDA unit : StrictEquals(unit.id, v))
      [] key = "nameContains" ->
            SelectSeq(filteredUnits, LAMBDA unit :
                /\ unit.name # <<>>
                /\ Contains(ToLowerCase(unit.name), ToLowerCase(StringOf(v))))
      [] key = "codeContains" ->
            SelectSeq(filteredUnits, LAMBDA unit :
                unit.code # <<>> /\ Contains(unit.code, StringOf(v)))
      [] key = "descriptionContains" ->
            SelectSeq(filteredUnits, LAMBDA unit :
                /\ unit.metadata.description # <<>>
                /\ Contains(ToLowerCase(unit.metadata.description),
                            ToLowerCase(StringOf(v))))
      [] key = "ofType" ->
            SelectSeq(filteredUnits, LAMBDA unit : StrictEquals(unit.type, v))
      [] key = "memberOfCluster" ->
            SelectSeq(filteredUnits, LAMBDA unit : unit.clusterId = v)
      [] key = "hasTests" ->
            SelectSeq(filteredUnits, LAMBDA unit :
                IF Falsy(v) THEN unit.metadata.tests = <<>>
                ELSE unit.metadata.tests # <<>>)
      [] key = "originalSource" ->
            SelectSeq(filteredUnits, LAMBDA unit : StrictEquals(unit.originalSource, v))
      [] key = "dependsOn" ->
            LET targetIds == IdsMeant(allUnits, v)
                targetNames == NamesOf(allUnits, targetIds)
            IN IF targetIds = <<>> THEN <<>>
               ELSE SelectSeq(filteredUnits,
                              LAMBDA unit : DependsOnAny(unit, targetIds, targetNames))
      [] key = "dependencyOf" ->
            LET sourceIds == IdsMeant(allUnits, v)
            IN IF sourceIds = <<>> THEN <<>>
               ELSE SelectSeq(filteredUnits,
                              LAMBDA unit : DependencyOfAny(unit, allUnits, sourceIds))
      [] OTHER -> filteredUnits

RECURSIVE FilterByQuery(_, _, _)
\* for (const key in query), over the remaining criteria
FilterByQuery(filteredUnits, allUnits, criteria) ==
    IF criteria = <<>> THEN filteredUnits
    ELSE LET c == Head(criteria)
         IN FilterByQuery(IF EmptyFilter(c.value) THEN filteredUnits
                          ELSE ApplyCriterion(filteredUnits, allUnits, c.key, c.value),
                          allUnits, Tail(criteria))

\* { success: true, units, count: units.length }
Found(units) == Success([units |-> units, count |-> Len(units)])

\* a structured query: the criteria in the order of the keys of the object
Query(criteria) == [type |-> "object", criteria |-> criteria]

handleFindUnits(request, st, pending, env) ==
    LET all == getAllOutcome(st, env.storeFails)
        query == request.query
    IN IF all.kind = "throw" THEN Handled(all, st, pending)
       ELSE IF Falsy(query) THEN Handled(Return(Found(all.value)), st, pending)
       ELSE IF query.type = "string"
       THEN Handled(Return(Found(SelectSeq(all.value, LAMBDA unit :
                       \/ unit.name # <<>>
                          /\ Contains(ToLowerCase(unit.name), ToLowerCase(query.text))
                       \/ unit.code # <<>> /\ Contains(unit.code, query.text)))),
                    st, pending)
       ELSE IF query.type = "object"
       THEN Handled(Return(Found(FilterByQuery(all.value, all.value, query.criteria))),
                    st, pending)
       ELSE Handled(Return(Failure(ErrorMessage("Invalid query type"))), st, pending)

\* the switch of handleAIRequest; reading request.command of a request that
\* is undefined throws a TypeError
Dispatch(request, st, pending, env) ==
    IF request.type = "undefined"
    THEN Handled(Throw(ErrorThrown("TypeError")), st, pending)
    ELSE CASE request.command = "getUnit" -> handleGetUnit(request, st, pending, env)
           [] request.command = "getCluster" -> handleGetCluster(request, st, pending, env)
           [] request.command = "findUnits" -> handleFindUnits(request, st, pending, env)
           [] request.command = "getDependencies" ->
                 handleGetDependencies(request, st, pending, env)
           [] request.command = "proposeUpdate" ->
                 handleProposeUpdate(request, st, pending, env)
           [] request.command = "runTests" -> handleRunTests(request, st, pending, env)
           [] request.command = "previewExecution" ->
                 handlePreviewExecution(request, st, pending, env)
           [] request.command = "applyUpdate" -> handleApplyUpdate(request, st, pending, env)
           [] request.command = "proposePlan" -> handleProposePlan(request, st, pending, env)
           [] request.command = "importFromGithub" ->
                 handleImportFromGithub(request, st, pending, env)
           [] OTHER -> Handled(Return(Failure(ErrorMessage("Unknown command"))), st, pending)

\* what the promise of handleAIRequest comes to: the response of the handler,
\* or the response built by the catch, which reads error.message
Settled(outcome) ==
    IF outcome.kind = "pending" THEN [settled |-> "never"]
    ELSE IF outcome.kind = "return" THEN [settled |-> "resolved", value |-> outcome.value]
    ELSE LET message == MessageOf(outcome.thrown)
         IN IF message.kind = "throw" THEN [settled |-> "rejected"]
            ELSE [settled |-> "resolved", value |-> Failure(message.value)]

ApiFrame == <<tracerVars, updaterVars, loader, clusterer, ingestVars, wrap, scan, batch>>

\* handleAIRequest(request) in an environment env: whether the store fails,
\* what the bundle and the fetches come to, how the written transaction ends
handleAIRequestWithin(request, env, maxRequests) ==
    /\ api.handled < maxRequests
    /\ LET h == Dispatch(request, store, api.pendingUpdates, env)
       IN /\ store' = h.store
          /\ api' = [handled |-> api.handled + 1, pendingUpdates |-> h.pending,
                     request |-> request, response |-> Settled(h.outcome)]
    /\ UNCHANGED ApiFrame

handleAIRequest(request, env) == handleAIRequestWithin(request, env, MaxRequests)

\* a request with no field set
EmptyRequest ==
    [type |-> "object", command |-> "none", id |-> Undef, newCode |-> Undef,
     newTests |-> Undef, query |-> Undef, entryPointId |-> Undef, plan |-> "missing",
     description |-> Undef, planId |-> Undef, repoUrl |-> Undef]

\* the ids of requests: none, empty, stored, not stored, not a string
RequestIds == {Undef, Str(<<>>), Str(Text_u1), Str(Text_u3), Str(Text_c1), Bool(TRUE)}

\* the criteria of structured queries
Criteria ==
    {[key |-> "id", value |-> Str(Text_u1)],
     [key |-> "id", value |-> Null],
     [key |-> "nameContains", value |-> Str(<<"B", "A">>)],
     [key |-> "nameContains", value |-> Str(<<" ">>)],
     [key |-> "codeContains", value |-> Str(<<"B", "a">>)],
     [key |-> "descriptionContains", value |-> Str(<<"F", "O", "O">>)],
     [key |-> "ofType", value |-> Str(Text_function)],
     [key |-> "memberOfCluster", value |-> Str(Text_c1)],
     [key |-> "hasTests", value |-> Bool(TRUE)],
     [key |-> "hasTests", value |-> Bool(FALSE)],
     [key |-> "originalSource", value |-> Str(Text_src)],
     [key |-> "dependsOn", value |-> Str(Text_u3)],
     [key |-> "dependsOn", value |-> Str(Text_bar)],
     [key |-> "dependsOn", value |-> Str(<<"n", "o">>)],
     [key |-> "dependencyOf", value |-> Str(Text_u1)],
     [key |-> "dependencyOf", value |-> Str(Text_baz)],
     [key |-> "color", value |-> Str(<<"r", "e", "d">>)]}

\* structured queries: up to MaxCriteria criteria with different keys
Queries ==
    {Query(q) : q \in {s \in SeqsUpTo(Criteria, MaxCriteria) :
                          \A j, k \in 1..Len(s) : j # k => s[j].key # s[k].key}}

\* findUnits requests
FindRequests ==
    {[EmptyRequest EXCEPT !.command = "findUnits", !.query = q] :
        q \in Queries \cup {Undef, Str(<<"b", "a">>), Bool(TRUE)}}

\* the requests handled in SpecApi
Requests ==
    {[EmptyRequest EXCEPT !.type = "undefined"], [EmptyRequest EXCEPT !.command = "explode"]}
    \cup {[EmptyRequest EXCEPT !.command = c, !.id = id] :
             c \in {"getUnit", "getCluster", "getDependencies", "runTests", "applyUpdate"},
             id \in RequestIds}
    \cup {[EmptyRequest EXCEPT !.command = "proposeUpdate", !.id = id, !.newCode = code,
                               !.newTests = tests] :
             id \in RequestIds, code \in {Undef, Str(<<"n">>)}, tests \in {Undef, Str(<<"t">>)}}
    \cup {[EmptyRequest EXCEPT !.command = "previewExecution", !.entryPointId = id] :
             id \in {Undef, Str(Text_u1)}}
    \cup {[EmptyRequest EXCEPT !.command = "proposePlan", !.plan = plan,
                               !.description = d, !.planId = id] :
             plan \in {"missing", "invalid", "valid"}, d \in {Undef, Str(<<"d">>)},
             id \in {Undef, Str(Text_u1)}}
    \cup {[EmptyRequest EXCEPT !.command = "importFromGithub", !.repoUrl = url] :
             url \in {Undef, Str(<<"x">>)}}
    \cup {[EmptyRequest EXCEPT !.command = "findUnits", !.query = q] :
             q \in {Undef, Str(<<"b", "a">>), Bool(TRUE),
                    Query(<<[key |-> "ofType", value |-> Str(Text_function)]>>)}}

\* an environment in which nothing fails
Calm ==
    [storeFails |-> FALSE, bundle |-> Return("value"), put |-> "complete",
     github |-> Return("No JavaScript files found at the specified path.")]

\* what the bundle of a unit comes to when it is executed
BundleOutcomes == {Return("value"), Throw(ErrorThrown("boom")), Throw(StringThrown),
                   Throw(NullThrown)}

\* the environments that differ for a request
Environments(request) ==
    {Calm, [Calm EXCEPT !.storeFails = TRUE]}
    \cup (IF request.command \in {"runTests", "previewExecution"}
          THEN {[Calm EXCEPT !.bundle = b] : b \in BundleOutcomes} ELSE {})
    \cup (IF request.command = "applyUpdate"
          THEN {[Calm EXCEPT !.put = p] : p \in {"error", "abort"}} ELSE {})
    \cup (IF request.command = "importFromGithub"
          THEN {[Calm EXCEPT !.github = g] :
                   g \in {Return("GitHub API error"), Throw(ErrorThrown("network")),
                          Throw(NullThrown)}}
          ELSE {})

\* the stores the interface may find: any of the three units
ApiStores ==
    {[id \in {ApiUnits[k].id : k \in ks} |->
         ApiUnits[CHOOSE k \in ks : ApiUnits[k].id = id]] : ks \in SUBSET (1..Len(ApiUnits))}

InitApi ==
    /\ TracerInit
    /\ store \in ApiStores
    /\ cycles = <<>>
    /\ timer = "off"
    /\ loader = LoaderIdle
    /\ clusterer = ClustererIdle
    /\ ingest = IngestIdle
    /\ depStore = EmptyStore
    /\ wrap = WrapIdle
    /\ api = ApiIdle
    /\ scan = ScanIdle
    /\ batch = BatchIdle

NextApi ==
    \E request \in Requests : \E env \in Environments(request) :
       handleAIRequest(request, env)

SpecApi == InitApi /\ [][NextApi]_vars

\* proposals, plans and applications for a stored and a missing unit, with
\* two different new codes
UpdateRequests ==
    {[EmptyRequest EXCEPT !.command = "proposeUpdate", !.id = id, !.newCode = code,
                          !.newTests = tests] :
        id \in {Str(Text_u1), Str(Text_u3)}, code \in {Str(<<"n">>), Str(<<"m">>)},
        tests \in {Undef, Str(<<"t">>)}}
    \cup {[EmptyRequest EXCEPT !.command = "applyUpdate", !.id = id] :
             id \in {Undef, Str(Text_u1), Str(Text_u3)}}
    \cup {[EmptyRequest EXCEPT !.command = "proposePlan", !.plan = "valid",
                               !.description = Str(<<"d">>), !.planId = Str(Text_u1)],
          [EmptyRequest EXCEPT !.command = "getUnit", !.id = Str(Text_u1)]}

\* a sequence of requests about updates
NextUpdate ==
    \E request \in UpdateRequests : \E env \in Environments(request) :
       handleAIRequestWithin(request, env, MaxUpdates)

SpecUpdate == InitApi /\ [][NextUpdate]_vars

\* one findUnits request on each of the stores
NextFind ==
    /\ api.handled = 0
    /\ \E request \in FindRequests : \E env \in Environments(request) :
          handleAIRequest(request, env)

SpecFind == InitApi /\ [][NextFind]_vars

----------------------------------------------------------------------------
(* clusterUnits, updateDynamicRelationships and handleApplyUpdate on one store *)

MaxRaceCalls == 2      \* traced invocations in one behaviour of SpecRace
MaxRaceRequests == 1   \* applyUpdate requests handled in one behaviour of SpecRace
MaxRaceCycles == 1     \* updater runs started in one behaviour of SpecRace
MaxRaceRuns == 1       \* clusterUnits calls in one behaviour of SpecRace

\* the stored unit: A, without relationships and without a cluster; its code
\* is held as its size, as the clusterer reads it
RaceStore ==
    [id \in {"A"} |-> Unit(id, id, 1, <<>>, <<>>, NoCluster) @@ [metadata |-> NoMetadata]]

\* the code a proposed update carries: two characters
RaceNewCode == Str(<<"n", "n">>)

\* the pending update handleProposeUpdate({ id: 'A', newCode }) leaves
RacePending ==
    [id \in {"A"} |-> [type |-> "single_update", newCode |-> RaceNewCode, newTests |-> Undef]]

\* handleApplyUpdate is between its two awaits: the unit is read and not written
Applying == api.response.settled = "applying"

\* handleApplyUpdate({ id }) up to the result of `await getUnit(id)`: the
\* update and the unit are held in locals while putUnitsChunked is awaited;
\* where the handler returns earlier, that is the whole call
ApplyGetUnit(id) ==
    /\ api.handled < MaxRaceRequests
    /\ LET pending == api.pendingUpdates
           request == [command |-> "applyUpdate", id |-> id]
           Answer(p, response) ==
               [handled |-> api.handled + 1, pendingUpdates |-> p, request |-> request,
                response |-> response]
       IN api' =
            IF id \notin DOMAIN pending
            THEN Answer(pending, Settled(Return(Failure(
                            ErrorMessage("No pending update found for unit")))))
            ELSE IF pending[id].type = "plan"
            THEN Answer(pending, Settled(Return(Failure(
                            ErrorMessage("This is a plan, use applyPlan command")))))
            ELSE IF id \notin DOMAIN store
            THEN Answer(MapDelete(pending, id),
                        Settled(Return(Failure(ErrorMessage("Unit not found")))))
            ELSE Answer(pending, [settled |-> "applying", unit |-> store[id],
                                  update |-> pending[id]])
    /\ UNCHANGED <<store, ApiFrame>>

\* the rest of handleApplyUpdate: the unit read before is changed and written
\* whole by putUnitsChunked([unit]), whose transaction completes, fails or is
\* aborted; pendingUpdates.delete(id) follows a completed write
ApplyPut(put) ==
    /\ Applying
    /\ LET unit == api.response.unit
           update == api.response.update
           deleted == MapDelete(api.pendingUpdates, api.request.id)
       IN IF put = "complete"
          THEN /\ store' = StorePut(store, [UpdatedUnit(unit, update) EXCEPT !.code = Len(@)])
               /\ api' = [api EXCEPT !.pendingUpdates = deleted,
                             !.response = Settled(Return(Success(Cardinality(DOMAIN deleted))))]
          ELSE /\ store' = store
               /\ api' = [api EXCEPT !.response = Settled(putOutcome(put))]
    /\ UNCHANGED ApiFrame

InitRace ==
    /\ TracerInit
    /\ store = RaceStore
    /\ cycles = <<>>
    /\ timer = "off"
    /\ loader = LoaderIdle
    /\ clusterer = ClustererIdle
    /\ ingest = IngestIdle
    /\ depStore = EmptyStore
    /\ wrap = WrapIdle
    /\ api = [ApiIdle EXCEPT !.pendingUpdates = RacePending]
    /\ scan = ScanIdle
    /\ batch = BatchIdle

RaceClusterSizes == {2}

\* no writer has started
WritersIdle == cycles = <<>> /\ clusterer = ClustererIdle /\ api.handled = 0

\* the traced program runs its synchronous calls first; the three writers'
\* steps follow, in any order
NextRace ==
    \/ /\ WritersIdle
       /\ (\E u \in UpdaterUnits : Invoke(u, MaxRaceCalls)) /\ UNCHANGED <<store, updaterVars, restVars>>
    \/ SyncReturn /\ UNCHANGED <<store, updaterVars, restVars>>
    \/ Len(cycles) < MaxRaceCycles /\ BeginCycle /\ UNCHANGED <<timer, restVars>>
    \/ (\E c \in 1..MaxCycles : GetUnitStep(c)) /\ UNCHANGED <<timer, restVars>>
    \/ (\E c \in 1..MaxCycles, ok \in BOOLEAN : PutChunkStep(c, ok)) /\ UNCHANGED <<timer, restVars>>
    \/ /\ Len(jsStack) = 0 /\ Len(clusterer.history) < MaxRaceRuns
       /\ \E maxClusterSize \in RaceClusterSizes : clusterUnits(maxClusterSize)
    \/ Len(jsStack) = 0 /\ \E ok \in BOOLEAN : ClusterPut(ok)
    \/ Len(jsStack) = 0 /\ ~Applying /\ \E id \in {"A"} : ApplyGetUnit(id)
    \/ Len(jsStack) = 0 /\ \E put \in {"complete", "error", "abort"} : ApplyPut(put)

SpecRace == InitRace /\ [][NextRace]_vars

----------------------------------------------------------------------------
(* Claims about the tracer *)

DoneStates == {"returned", "threw", "resolved", "rejected"}

\* invocation i takes one of its exit paths in this step
Exits(i) == calls[i].st \notin DoneStates /\ calls'[i].st \in DoneStates

\* this step appends exactly one completion event carrying i's call id
OneCompletionEvent(i) ==
    /\ Len(traceLog') = Len(traceLog) + 1
    /\ SubSeq(traceLog', 1, Len(traceLog)) = traceLog
    /\ traceLog'[Len(traceLog')].type \in {"callEnd", "callError"}
    /\ traceLog'[Len(traceLog')].id = calls[i].id
    /\ traceLog'[Len(traceLog')].inv = i

\* this step removes exactly the top frame (nothing when the stack is empty)
OnePop ==
    /\ Len(callStack') = (IF Len(callStack) > 0 THEN Len(callStack) - 1 ELSE 0)
    /\ callStack' = SubSeq(callStack, 1, Len(callStack'))

\* completion events are appended only by an exit step of their invocation,
\* and a completed invocation never takes a second exit path
CompletionOnlyOnExit ==
    /\ \A k \in (Len(traceLog) + 1)..Len(traceLog') :
          traceLog'[k].type # "callStart" => Exits(traceLog'[k].inv)
    /\ \A i \in 1..Len(calls) :
          calls[i].st \in DoneStates => calls'[i] = calls[i]

----------------------------------------------------------------------------
(* Claims about the relationship updater *)

\* C5: at no time are two runs of updateDynamicRelationships in flight
C5_SingleFlight == Cardinality(InFlightCycles) <= 1

\* the copy of unit id that putUnitsChunked(updated) writes last
LastCopy(updated, id) ==
    updated[CHOOSE m \in 1..Len(updated) :
               /\ updated[m].id = id
               /\ \A n \in (m + 1)..Len(updated) : updated[n].id # id]

\* run c returns in this step
Returns(c) ==
    /\ c \in 1..Len(cycles')
    /\ cycles'[c].pc = "done"
    /\ (c <= Len(cycles) => cycles[c].pc \in {"get", "put"})

\* every unit run c had to store is in the store after this step
AllPersisted(c) ==
    (c <= Len(cycles) /\ cycles[c].pc = "put") =>
        \A m \in 1..Len(cycles[c].updatedUnits) :
            LET id == cycles[c].updatedUnits[m].id
            IN /\ id \in DOMAIN store'
               /\ store'[id] = LastCopy(cycles[c].updatedUnits, id)

Freq(st, a, b) ==
    IF a \notin DOMAIN st THEN 0
    ELSE LET at == FindRel(st[a].dynamicRelationships, b)
         IN IF at = 0 THEN 0 ELSE st[a].dynamicRelationships[at].frequency

\* number of callStart events of log for unit b whose parent call is a call of unit a
CallsObserved(log, a, b) ==
    Cardinality({k \in 1..Len(log) :
        /\ log[k].type = "callStart" /\ log[k].unitId = b
        /\ \E j \in 1..Len(log) :
              /\ log[j].type = "callStart" /\ log[j].id = log[k].parentId
              /\ log[j].unitId = a})

\* C7: when the only run so far returns, every stored unit a has, for every
\* target b, its earlier frequency plus the number of calls a -> b in the log
\* the run read.
C7_FrequenciesAccumulate ==
    [][(Len(cycles) = 1 /\ cycles[1].pc = "put" /\ cycles'[1].pc = "done") =>
          \A a \in DOMAIN cycles[1].store0 : \A b \in UpdaterUnits :
              Freq(store', a, b) =
                  Freq(cycles[1].store0, a, b) + CallsObserved(cycles[1].log, a, b)]_vars


----------------------------------------------------------------------------
(* Claims about the loader *)

Elems(q) == {q[k] : k \in 1..Len(q)}

\* index of the first occurrence of x in q, 0 if there is none
Position(q, x) ==
    LET hits == {k \in 1..Len(q) : q[k] = x}
    IN IF hits = {} THEN 0 ELSE CHOOSE k \in hits : \A m \in hits : k <= m

\* u.staticDependencies names the stored unit v
StaticEdge(st, u, v) ==
    /\ u \in DOMAIN st
    /\ v \in DOMAIN st
    /\ st[v].name \in Elems(st[u].staticDependencies)

RECURSIVE ReachesWithin(_, _, _, _, _)
\* a path of 1..n static edges leads from a to b through units of S
ReachesWithin(st, S, a, b, n) ==
    IF n = 0 THEN FALSE
    ELSE \/ StaticEdge(st, a, b)
         \/ \E c \in S : StaticEdge(st, a, c) /\ ReachesWithin(st, S, c, b, n - 1)

OnCycle(st, S, u) == ReachesWithin(st, S, u, u, Cardinality(S))

\* C2: in the order topologicalSort returns for a list of stored unit ids,
\* for every static edge u -> v between units of the list that do not both
\* lie on a cycle, v comes before u (for main calling helper: helper, main).
C2_DependenciesFirst ==
    loader.pc = "sorted" =>
        LET S == Elems(loader.ids)
        IN \A u \in S : \A v \in S :
               ( /\ StaticEdge(store, u, v)
                 /\ ~(OnCycle(store, S, u) /\ OnCycle(store, S, v)) )
               => Position(loader.result, v) < Position(loader.result, u)

\* C3: the array resolveDependencies returns contains the entry ids and is
\* closed under static references resolved against every unit of the store.
C3_ResolveClosed ==
    (loader.pc = "resolved" /\ loader.ids # <<>>) =>
        /\ Elems(loader.ids) \subseteq Elems(loader.result)
        /\ \A u \in Elems(loader.result) : \A v \in DOMAIN store :
               StaticEdge(store, u, v) => v \in Elems(loader.result)

----------------------------------------------------------------------------
(* Claims about the clusterer *)

RECURSIVE MemberSizes(_, _)
\* the sum of the code sizes of the stored units with the given ids
MemberSizes(st, ids) ==
    IF ids = <<>> THEN 0 ELSE st[Head(ids)].code + MemberSizes(st, Tail(ids))

\* C4: every cluster formed by clusterUnits(maxClusterSize) has members whose
\* code sizes sum to at most maxClusterSize, or is a single unit that is
\* itself larger than maxClusterSize.
C4_ClusterSizeBound ==
    clusterer.pc \in {"put", "done"} =>
        \A c \in 1..Len(clusterer.clusters) :
            LET members == clusterer.clusters[c].units
            IN \/ MemberSizes(store, members) <= clusterer.max
               \/ Len(members) = 1 /\ store[members[1]].code > clusterer.max

\* C9: two successful clusterUnits runs in a row with the same maxClusterSize,
\* on a store nothing else writes, leave every unit with the same clusterId.
C9_RerunSameAssignment ==
    \A i \in 1..(Len(clusterer.history) - 1) :
        ( /\ clusterer.history[i].success
          /\ clusterer.history[i + 1].success
          /\ clusterer.history[i].max = clusterer.history[i + 1].max )
        => clusterer.history[i + 1].clusterIds = clusterer.history[i].clusterIds

----------------------------------------------------------------------------
(* Claims about ingestion *)

UniqueEdges(ds) ==
    \A a \in DOMAIN ds : \A b \in DOMAIN ds :
        ( /\ ds[a].sourceId = ds[b].sourceId
          /\ ds[a].targetId = ds[b].targetId
          /\ ds[a].type = ds[b].type ) => a = b

\* a source that was merged before is merged again
Remerged ==
    /\ Len(ingest'.sources) = Len(ingest.sources) + 1
    /\ Last(ingest'.sources) \in Elems(ingest.sources)

\* C10: merging the analysis of a source that was merged before leaves the
\* number of records of the dependencies store unchanged, and the store never
\* holds two static edges with the same (sourceId, targetId, type).
C10_ReingestIdempotent ==
    [][/\ UniqueEdges(depStore')
       /\ Remerged => Cardinality(DOMAIN depStore') = Cardinality(DOMAIN depStore)]_vars

\* the same source merged twice in a row into a store that holds several edges
C10_Witness ==
    /\ Len(ingest.sources) >= 2
    /\ ingest.sources[1] = ingest.sources[2]
    /\ Cardinality(DOMAIN depStore) >= 2

----------------------------------------------------------------------------
(* More claims about the clusterer *)

\* the number of places at which id occurs in the member lists
Memberships(clusters, id) ==
    Cardinality(UNION { {<<c, k>> : k \in {m \in 1..Len(clusters[c].units) :
                                                 clusters[c].units[m] = id}} :
                        c \in 1..Len(clusters) })

\* C12: after a successful clusterUnits run every stored unit is a member of
\* exactly one cluster and carries that cluster's id, every member is a stored
\* unit, and unitsUpdated is the number of stored units.
C12_ClustersPartitionUnits ==
    clusterer.pc = "done" =>
        /\ \A id \in DOMAIN store :
              /\ Memberships(clusterer.clusters, id) = 1
              /\ store[id].clusterId # NoCluster
              /\ \E c \in 1..Len(clusterer.clusters) :
                     /\ clusterer.clusters[c].id = store[id].clusterId
                     /\ id \in Elems(clusterer.clusters[c].units)
        /\ \A c \in 1..Len(clusterer.clusters) :
              Elems(clusterer.clusters[c].units) \subseteq DOMAIN store
        /\ Len(clusterer.updatedUnits) = Cardinality(DOMAIN store)

\* a successful run that split three units into several clusters
C12_Witness ==
    /\ clusterer.pc = "done"
    /\ Cardinality(DOMAIN store) = 3
    /\ Len(clusterer.clusters) >= 2
    /\ \E c \in 1..Len(clusterer.clusters) : Len(clusterer.clusters[c].units) >= 2

----------------------------------------------------------------------------
(* More claims about the tracer *)

\* C16: every traced invocation of the run has a call id different from the
\* id of every other invocation, whether made before or after clearTraceLog
\* or still in flight when it runs.
C16_CallIdsUnique ==
    \A i \in 1..Len(calls) : \A j \in 1..Len(calls) :
        i # j => calls[i].id # calls[j].id

----------------------------------------------------------------------------
(* More claims about the loader *)

\* the required ids that are not yet processed
Unprocessed == Elems(loader.required) \ loader.processed

\* C20: the loop of resolveDependencies terminates; while it runs the required
\* set never shrinks, an iteration fetches exactly the required ids that were
\* never processed before and marks them processed, and the loop ends at the
\* first iteration that finds no unprocessed required id.
C20_ResolveTerminates ==
    /\ [][loader.pc = "resolving" =>
            /\ Len(loader'.required) >= Len(loader.required)
            /\ \A k \in 1..Len(loader.required) : loader'.required[k] = loader.required[k]
            /\ loader.processed \subseteq loader'.processed
            /\ (Unprocessed = {}) <=> (loader'.pc = "resolved")
            /\ (Unprocessed # {} /\ loader'.pc = "resolving") =>
                   loader'.processed = loader.processed \cup Unprocessed]_vars
    /\ (loader.pc = "resolving") ~> (loader.pc \in {"resolved", "threw"})

\* a resolution that ended after the required set had grown beyond the entries
C20_Witness ==
    /\ loader.pc = "resolved"
    /\ Cardinality(Elems(loader.result)) > Cardinality(Elems(loader.ids))
    /\ Elems(loader.result) = loader.processed

\* the events appended since the invocation under way (or just over) began
EventsOfInvocation == SubSeq(traceLog, wrap.inv.logAt + 1, Len(traceLog))

\* C15: traceFn gives an already wrapped callable back as it is, so one
\* invocation of an installed wrapper, however often it was wrapped, pushes
\* one stack frame and records one callStart and one completion event.
C15_RewrapIsNoOp ==
    /\ \A key \in DOMAIN wrap.fns :
          wrap.fns[key].isTraced => traceFn(wrap.fns[key], UnitIdMap(key)) = wrap.fns[key]
    /\ (wrap.inv.phase # "none" /\ wrap.inv.traced) =>
          /\ Len(callStack) <= wrap.inv.depthAt + 1
          /\ Cardinality({k \in 1..Len(EventsOfInvocation) :
                             EventsOfInvocation[k].type = "callStart"}) <= 1
          /\ wrap.inv.phase = "over" =>
                /\ Len(EventsOfInvocation) = 2
                /\ EventsOfInvocation[1].type = "callStart"
                /\ EventsOfInvocation[2].type = "callEnd"
                /\ EventsOfInvocation[2].id = EventsOfInvocation[1].id
                /\ Len(callStack) = wrap.inv.depthAt

\* a callable wrapped by a pass, wrapped again directly and by a second pass,
\* then invoked to completion
C15_Witness ==
    /\ wrap.wraps = 3
    /\ wrap.inv.phase = "over"
    /\ wrap.inv.traced
    /\ Len(traceLog) >= 2

\* the records of the batch under way that are in the store
Written == {k \in 1..Len(batch.units) :
               /\ batch.units[k].id \in DOMAIN store
               /\ store[batch.units[k].id] = batch.units[k]}

\* the positions in the batch of the records of the chunk starting at i
ChunkPositions(i) == {k \in 1..Len(batch.units) : i < k /\ k <= i + batch.chunkSize}

\* C18: every chunk of putUnitsChunked is written whole or not at all; once a
\* chunk has failed the promise rejects, the chunks before it are in the store
\* and no record of that chunk or of a later one is written.
C18_ChunkAtomic ==
    /\ \A c \in 0..Len(batch.units) :
          (c % batch.chunkSize = 0) =>
              \/ ChunkPositions(c) \subseteq Written
              \/ ChunkPositions(c) \cap Written = {}
    /\ batch.failedAt >= 0 =>
          /\ batch.pc \in {"threw", "rejected"}
          /\ Written = {k \in 1..Len(batch.units) : k <= batch.failedAt}

\* a chunk failed after an earlier chunk was committed
C18_Witness ==
    /\ batch.failedAt > 0
    /\ batch.pc = "rejected"
    /\ Written # {}

\* the function declarations of a text: the declared name and the names its
\* body calls
Declaration(name, called) == [name |-> name, calls |-> called]

Declarations(code) ==
    CASE code = TwoDeclarations ->
            <<Declaration("a", {"b"}), Declaration("b", {})>>
      [] code = OneDeclaration -> <<Declaration("a", {})>>
      [] code = DeclarationsOnTwoLines ->
            <<Declaration("b", {}), Declaration("a", {"b"})>>
      [] OTHER -> <<>>

\* the pairs (k, m) of declarations where k calls m by name
CallPairs(decls) ==
    {p \in (1..Len(decls)) \X (1..Len(decls)) : decls[p[2]].name \in decls[p[1]].calls}

\* C11: for a text made of function declarations analyzeCode emits one unit
\* per declaration, carrying the declared name and referencing the names its
\* body calls, and exactly one static edge per caller-callee pair.
C11_OneUnitPerDeclaration ==
    (scan.pc = "done" /\ Declarations(scan.code) # <<>>) =>
        LET decls == Declarations(scan.code)
        IN /\ Len(scan.units) = Len(decls)
           /\ \A k \in 1..Len(decls) :
                 /\ scan.units[k].name = decls[k].name
                 /\ decls[k].calls \subseteq Elems(scan.units[k].staticDependencies)
           /\ Len(scan.dependencies) = Cardinality(CallPairs(decls))
           /\ \A p \in CallPairs(decls) :
                 \E d \in 1..Len(scan.dependencies) :
                    /\ scan.dependencies[d].sourceId = scan.units[p[1]].id
                    /\ scan.dependencies[d].targetId = scan.units[p[2]].id
                    /\ scan.dependencies[d].type = "static"

\* C17: the units analyzeCode returns for one chunk have pairwise different
\* ids, so a store keyed by id holds every one of them after the batch is put.
C17_UnitIdsDistinct ==
    scan.pc = "done" =>
        /\ \A j, k \in 1..Len(scan.units) :
              j # k => scan.units[j].id # scan.units[k].id
        /\ Cardinality(DOMAIN StorePutAll(EmptyStore, scan.units)) = Len(scan.units)

\* C13: the promise of handleAIRequest is resolved, never rejected and never
\* left unsettled, with a response whose success field is a boolean and, when
\* it is false, an error.
C13_AlwaysResolves ==
    api.handled > 0 =>
        /\ api.response.settled = "resolved"
        /\ api.response.value.success \in BOOLEAN
        /\ ~api.response.value.success => api.response.value.error # Undef

\* the commands that take the id of a unit or of a cluster
IdCommands == {"getUnit", "getCluster", "getDependencies", "proposeUpdate", "applyUpdate"}

\* the id of the request names nothing stored: no unit of that id, for
\* getCluster no unit of that cluster
NamesNothing(request, st) ==
    /\ request.id.type = "string"
    /\ IF request.command = "getCluster"
       THEN \A k \in DOMAIN st : st[k].clusterId # request.id
       ELSE request.id.text \notin DOMAIN st

\* C14: getUnit, getCluster, getDependencies, proposeUpdate and applyUpdate
\* answer success:false with a message when the id is missing or names
\* nothing stored, and leave the store as it was.
C14_MissingOrUnknownId ==
    [][(/\ api'.handled = api.handled + 1
        /\ api'.request.type = "object"
        /\ api'.request.command \in IdCommands
        /\ Falsy(api'.request.id) \/ NamesNothing(api'.request, store))
       => /\ api'.response.settled = "resolved"
          /\ api'.response.value.success = FALSE
          /\ api'.response.value.error.type = "string"
          /\ store' = store]_vars

\* applyUpdate for an id that is not stored, while an update is pending
C14_Witness ==
    /\ api.request.command = "applyUpdate"
    /\ NamesNothing(api.request, store)
    /\ DOMAIN api.pendingUpdates # {}
    /\ api.response.settled = "resolved"
    /\ ~api.response.value.success

\* the keys findUnits recognizes
RecognizedKeys == {"id", "nameContains", "codeContains", "descriptionContains", "ofType",
                   "memberOfCluster", "hasTests", "originalSource", "dependsOn",
                   "dependencyOf"}

\* a criterion that restricts the result
Restricts(c) == c.key \in RecognizedKeys /\ ~EmptyFilter(c.value)

\* the unit t is the one the value v of dependsOn / dependencyOf stands for
Designates(v, t, units) ==
    IF \E x \in units : x.id = v.text THEN t.id = v.text ELSE t.name = v.text

\* u depends on t, by a name called or by an observed call
DependsOnUnit(u, t) ==
    \/ t.name \in Elems(u.staticDependencies)
    \/ \E r \in Elems(u.dynamicRelationships) : r.targetId = t.id

\* the unit u of the stored units satisfies the criterion c
Meets(u, c, units) ==
    CASE c.key = "id" -> c.value.type = "string" /\ u.id = c.value.text
      [] c.key = "nameContains" ->
            Contains(ToLowerCase(u.name), ToLowerCase(StringOf(c.value)))
      [] c.key = "codeContains" -> Contains(u.code, StringOf(c.value))
      [] c.key = "descriptionContains" ->
            /\ u.metadata.description # <<>>
            /\ Contains(ToLowerCase(u.metadata.description), ToLowerCase(StringOf(c.value)))
      [] c.key = "ofType" -> c.value.type = "string" /\ u.type = c.value.text
      [] c.key = "memberOfCluster" -> u.clusterId = c.value
      [] c.key = "hasTests" -> (u.metadata.tests # <<>>) <=> ~Falsy(c.value)
      [] c.key = "originalSource" ->
            c.value.type = "string" /\ u.originalSource = c.value.text
      [] c.key = "dependsOn" ->
            /\ c.value.type = "string"
            /\ \E t \in units : Designates(c.value, t, units) /\ DependsOnUnit(u, t)
      [] c.key = "dependencyOf" ->
            /\ c.value.type = "string"
            /\ \E t \in units : Designates(c.value, t, units) /\ DependsOnUnit(t, u)

\* the stored units in key order
StoredUnits == getAllOutcome(store, FALSE).value

\* C19: a structured findUnits returns exactly the stored units that meet
\* every criterion with a recognized key and a value that is not null,
\* undefined or blank, and count is the number of units returned.
C19_FindUnitsIsConjunction ==
    (/\ api.request.command = "findUnits"
     /\ api.request.query.type = "object"
     /\ api.response.settled = "resolved"
     /\ api.response.value.success)
    => LET criteria == Elems(api.request.query.criteria)
           found == api.response.value.payload
       IN /\ found.units =
                SelectSeq(StoredUnits, LAMBDA u :
                    \A c \in criteria : Restricts(c) => Meets(u, c, Elems(StoredUnits)))
          /\ found.count = Len(found.units)

\* two restricting criteria that single out one of three stored units, beside
\* a criterion that is skipped
C19_Witness ==
    /\ api.request.command = "findUnits"
    /\ api.request.query.type = "object"
    /\ api.response.settled = "resolved"
    /\ api.response.value.success
    /\ Cardinality(DOMAIN store) = 3
    /\ Len(api.response.value.payload.units) = 1
    /\ Len(api.request.query.criteria) = 2
    /\ \A c \in Elems(api.request.query.criteria) :
          /\ Restricts(c)
          /\ Len(ApplyCriterion(StoredUnits, StoredUnits, c.key, c.value)) = 2

----------------------------------------------------------------------------
(* Claims about the order and the extent of what the loader returns *)

\* the number of positions of q that hold x
Occurrences(q, x) == Cardinality({k \in 1..Len(q) : q[k] = x})

\* C21: whatever the static references among the listed units are, cycles
\* and self-references included, the array topologicalSort returns holds
\* each id of the list exactly once and no other id.
C21_EachIdOnce ==
    loader.pc = "sorted" =>
        /\ Elems(loader.result) = Elems(loader.ids)
        /\ \A id \in Elems(loader.ids) : Occurrences(loader.result, id) = 1

\* a sort of a list in which one unit names itself and two name each other
C21_Witness ==
    /\ loader.pc = "sorted"
    /\ Len(loader.ids) >= 2
    /\ StaticEdge(store, "mainId", "mainId")
    /\ StaticEdge(store, "mainId", "helperId")
    /\ StaticEdge(store, "helperId", "mainId")
    /\ {"mainId", "helperId"} \subseteq Elems(loader.ids)
    /\ Occurrences(loader.result, "mainId") = 1

\* a relationship of u with a frequency above the threshold targets v
StrongEdge(st, u, v) ==
    /\ u \in DOMAIN st
    /\ \E k \in 1..Len(st[u].dynamicRelationships) :
          /\ st[u].dynamicRelationships[k].targetId = v
          /\ st[u].dynamicRelationships[k].frequency > 5

\* one step of the closure: a static reference naming a stored unit or a
\* relationship with a frequency above the threshold
ClosureStep(st, u, v) == StaticEdge(st, u, v) \/ StrongEdge(st, u, v)

RECURSIVE ClosureWithin(_, _, _)
\* the ids reached from the set S in at most n closure steps
ClosureWithin(st, S, n) ==
    IF n = 0 THEN S
    ELSE LET R == ClosureWithin(st, S, n - 1)
         IN R \cup {v \in DOMAIN st \cup {GhostId} : \E u \in R : ClosureStep(st, u, v)}

\* C22: every id resolveDependencies returns is an entry id or is reached
\* from an entry by static references naming stored units and relationships
\* of frequency above 5; a relationship of frequency 5 or less brings nothing in.
C22_ResultWithinClosure ==
    loader.pc = "resolved" =>
        Elems(loader.result) \subseteq
            ClosureWithin(store, Elems(loader.ids), Cardinality(DOMAIN store) + 1)

\* a resolution from main and helper, where main's relationship of frequency 5
\* to util left util out
C22_Witness ==
    /\ loader.pc = "resolved"
    /\ loader.ids = <<"mainId", "helperId">>
    /\ \E k \in 1..Len(store["mainId"].dynamicRelationships) :
          /\ store["mainId"].dynamicRelationships[k].targetId = "utilId"
          /\ store["mainId"].dynamicRelationships[k].frequency = 5
    /\ "utilId" \notin Elems(loader.result)
    /\ loader.result = loader.ids

----------------------------------------------------------------------------
(* Claims about parent attribution in the tracer *)

\* every invocation so far ran synchronously: none returned a promise
AllSynchronous == \A i \in 1..Len(calls) : calls[i].st \in {"running", "returned", "threw"}

\* the latest started invocation that has not completed, 0 when there is none
InnermostActive ==
    LET active == {i \in 1..Len(calls) : ~Completed(i)}
    IN IF active = {} THEN 0 ELSE CHOOSE i \in active : \A j \in active : j <= i

\* this step is the start of a traced call
Starts == Len(calls') = Len(calls) + 1

\* the callStart event a starting step appends
Started == traceLog'[Len(traceLog')]

\* C23: while every traced call is synchronous, the parentId of a callStart
\* is the id of the innermost traced call started and not yet completed, and
\* null (NoCall) when no traced call is active.
C23_SyncParentIsInnermost ==
    [][(Starts /\ AllSynchronous) =>
           /\ Started.type = "callStart"
           /\ Started.parentId = IF InnermostActive = 0 THEN NoCall
                                 ELSE calls[InnermostActive].id]_vars

\* a third call started inside the second after the first had returned
C23_Witness ==
    /\ AllSynchronous
    /\ Len(calls) = 3
    /\ calls[1].st = "returned"
    /\ jsStack = <<2, 3>>
    /\ Last(traceLog).type = "callStart"
    /\ Last(traceLog).parentId = calls[2].id
    /\ calls[2].id # calls[1].id

\* the frame of invocation i is on the shared stack
FrameOn(i) == \E k \in 1..Len(callStack) : callStack[k].id = calls[i].id

\* the callStart event of invocation i, when the log still holds it
StartOf(i) ==
    {traceLog[k] : k \in {m \in 1..Len(traceLog) :
                            traceLog[m].type = "callStart" /\ traceLog[m].inv = i}}

\* C24: with promise-returning traced calls the shared stack misattributes:
\* a call started from outside any traced function while a frame is still
\* pushed records the id of that frame as its parentId, and a completion
\* removes the top frame whichever call pushed it.
C24_DeferredMisattribution ==
    [][ /\ (Starts /\ jsStack = <<>> /\ callStack # <<>>) =>
              /\ Started.parentId = Last(callStack).id
              /\ Started.parentId # NoCall
        /\ \A i \in 1..Len(calls) :
              (Pending(i) /\ calls'[i].st \in {"resolved", "rejected"}) =>
                  callStack' = SubSeq(callStack, 1, Len(callStack) - 1)]_vars

\* the first call returned a promise and is the recorded parent of the second,
\* which returned a promise too; the first then completed and its completion
\* removed the frame of the second, leaving its own; the third call, started
\* from outside every traced function (it is alone on the JavaScript stack),
\* records the first as its parent
C24_Witness ==
    /\ Len(calls) = 3
    /\ calls[1].st \in {"resolved", "rejected"}
    /\ calls[2].st = "pending"
    /\ \E e \in StartOf(2) : e.parentId = calls[1].id
    /\ FrameOn(1)
    /\ ~FrameOn(2)
    /\ jsStack = <<3>>
    /\ Last(traceLog).type = "callStart"
    /\ Last(traceLog).inv = 3
    /\ Last(traceLog).parentId = calls[1].id
    /\ calls[1].id \notin {calls[2].id, calls[3].id}

----------------------------------------------------------------------------
(* Claims about what clustering changes and how it splits *)

\* C25: a clusterUnits run changes only the clusterId of the stored units:
\* id, name, code, staticDependencies and dynamicRelationships of every unit
\* are after the run what they were before it, and no unit is added or removed.
C25_OnlyClusterIdChanges ==
    [][clusterer.pc = "put" =>
           /\ DOMAIN store' = DOMAIN store
           /\ \A id \in DOMAIN store :
                  store'[id] = [store[id] EXCEPT !.clusterId = store'[id].clusterId]]_vars

\* the stored units whose name has the given prefix
Bucket(st, prefix) == {id \in DOMAIN st : PrefixOf(st[id].name) = prefix}

RECURSIVE SizeOf(_, _)
\* the sum of the code sizes of a set of stored units
SizeOf(st, S) ==
    IF S = {} THEN 0
    ELSE LET id == CHOOSE x \in S : TRUE IN st[id].code + SizeOf(st, S \ {id})

\* u has a relationship whose target is v
DynamicEdge(st, u, v) ==
    \E k \in 1..Len(st[u].dynamicRelationships) : st[u].dynamicRelationships[k].targetId = v

\* the number of edges between u and the other units of R: static and
\* dynamic, from u and to u
Degree(st, u, R) ==
    Cardinality({v \in R \ {u} : StaticEdge(st, u, v)})
        + Cardinality({v \in R \ {u} : StaticEdge(st, v, u)})
        + Cardinality({v \in R \ {u} : DynamicEdge(st, u, v)})
        + Cardinality({v \in R \ {u} : DynamicEdge(st, v, u)})

\* the unit of R with the most edges to the rest of R, the lowest id on a tie
BestSeed(st, R) ==
    CHOOSE u \in R : \A v \in R \ {u} :
        \/ Degree(st, u, R) > Degree(st, v, R)
        \/ /\ Degree(st, u, R) = Degree(st, v, R)
           /\ Position(KeyOrder, u) < Position(KeyOrder, v)

\* the units of the bucket of cluster c that no earlier cluster has taken
Unassigned(st, clusters, c) ==
    Bucket(st, clusters[c].prefix)
        \ UNION {Elems(clusters[b].units) : b \in 1..(c - 1)}

\* C26: every cluster made by splitting an oversized bucket starts with the
\* unit that, among the units of the bucket not yet assigned, has the most
\* edges to the others (incoming and outgoing, static and dynamic), the
\* lowest unit id winning a tie.
C26_SeedIsMostConnected ==
    clusterer.pc = "put" =>
        \A c \in 1..Len(clusterer.clusters) :
            SizeOf(store, Bucket(store, clusterer.clusters[c].prefix)) > clusterer.max
                => clusterer.clusters[c].units[1]
                       = BestSeed(store, Unassigned(store, clusterer.clusters, c))

----------------------------------------------------------------------------
(* Claims about what the updater counts, clears and starts *)

\* run c ends in this step with clearTraceLog
Clears(c) ==
    /\ cycles[c].pc \in {"get", "put"}
    /\ cycles'[c].pc = "done"
    /\ traceLog' = <<>>

\* C27: a run discards no observation it has not counted: every callStart
\* event in the log when the run clears it was in the log, at the same place,
\* when the run aggregated it; what the tracer appended while the run was
\* awaiting the store is not removed.
C27_ClearsOnlyWhatItCounted ==
    [][\A c \in 1..Len(cycles) :
           Clears(c) =>
               \A k \in 1..Len(traceLog) :
                   traceLog[k].type = "callStart" =>
                       /\ k <= Len(cycles[c].log)
                       /\ cycles[c].log[k] = traceLog[k]]_vars

\* the traced calls made from inside another traced call: the callStart
\* events that have a parent
NestedCalls == {i \in 1..Len(calls) : calls[i].preDepth > 0}

\* C28: whatever runs there were, a callStart event adds to a stored
\* frequency at most once: no unit starts with a relationship to A, so the
\* frequency stored for target A never exceeds the number of callStart
\* events that have a parent.
C28_CountedAtMostOnce ==
    \A a \in DOMAIN store : Freq(store, a, "A") <= Cardinality(NestedCalls)

\* a run is started in this step
StartsCycle == Len(cycles') = Len(cycles) + 1

----------------------------------------------------------------------------
(* Claims about proposing and applying an update *)

\* this step handles a request of the given command
Handles(command) ==
    /\ api'.handled = api.handled + 1
    /\ api'.request.type = "object"
    /\ api'.request.command = command

\* the response of this step is success: true
Succeeds == api'.response.settled = "resolved" /\ api'.response.value.success

\* the request handled before this step was a proposeUpdate for the same id
\* that succeeded
JustProposed ==
    /\ api.handled > 0
    /\ api.request.type = "object"
    /\ api.request.command = "proposeUpdate"
    /\ api.request.id = api'.request.id
    /\ api.response.settled = "resolved"
    /\ api.response.value.success

----------------------------------------------------------------------------
(* Claims about failed writes and plans in the interface *)

\* the applyUpdate of this step gets as far as reading the unit: a
\* single-unit proposal is pending for its id and the unit is stored
AppliesPending ==
    /\ Handles("applyUpdate")
    /\ api'.request.id \in DOMAIN api.pendingUpdates
    /\ api.pendingUpdates[api'.request.id].type = "single_update"
    /\ api'.request.id.text \in DOMAIN store

\* C31: when applyUpdate(id) does not succeed although the proposal is
\* pending and the unit stored, so that the store failed it, the response is
\* success:false, the proposal is still pending and no stored unit changed.
C31_FailedWriteKeepsProposal ==
    [][(AppliesPending /\ ~Succeeds) =>
           /\ api'.response.settled = "resolved"
           /\ api'.response.value.success = FALSE
           /\ api'.pendingUpdates = api.pendingUpdates
           /\ store' = store]_vars

\* C32: applyUpdate on a key of pendingUpdates that holds a plan answers
\* success:false, leaves pendingUpdates as it was, the plan included, and
\* changes no stored unit.
C32_PlanNeverApplied ==
    [][(/\ Handles("applyUpdate")
        /\ api'.request.id \in DOMAIN api.pendingUpdates
        /\ api.pendingUpdates[api'.request.id].type = "plan")
       => /\ api'.response.settled = "resolved"
          /\ api'.response.value.success = FALSE
          /\ api'.pendingUpdates = api.pendingUpdates
          /\ store' = store]_vars

\* applyUpdate was refused for u1, which is a stored unit and the key under
\* which a plan is pending
C32_Witness ==
    /\ api.handled > 0
    /\ api.request.command = "applyUpdate"
    /\ api.request.id = Str(Text_u1)
    /\ Str(Text_u1) \in DOMAIN api.pendingUpdates
    /\ api.pendingUpdates[Str(Text_u1)].type = "plan"
    /\ Text_u1 \in DOMAIN store
    /\ api.response.settled = "resolved"
    /\ ~api.response.value.success

\* C39: proposePlan leaves every pending single-unit update in pendingUpdates
\* as it is, whatever planId the plan is given.
C39_PlanKeepsUpdates ==
    [][Handles("proposePlan") =>
           \A k \in DOMAIN api.pendingUpdates :
               api.pendingUpdates[k].type = "single_update" =>
                   /\ k \in DOMAIN api'.pendingUpdates
                   /\ api'.pendingUpdates[k] = api.pendingUpdates[k]]_vars

----------------------------------------------------------------------------
(* Claims about braces and skipped candidates in the scan *)

\* C33: for a function whose body holds a brace inside a string or inside a
\* comment, the unit extracted at the function keyword ends at the closing
\* brace that matches its opening brace, here the last character of the
\* text: the brace in the string or comment is not counted.
C33_BracesInLiteralsSkipped ==
    (scan.pc = "done" /\ scan.code \in {BraceInString, BraceInComment}) =>
        /\ scan.units # <<>>
        /\ scan.units[1].code = Len(scan.code)

\* C34: a candidate whose opening brace is never closed, or that has no name
\* to resolve, gives no unit, and a whole function later in the same text is
\* still emitted.
C34_BadCandidateSkipped ==
    scan.pc = "done" =>
        /\ scan.code \in {Unclosed, NamelessArrow} => scan.units = <<>>
        /\ scan.code = UnclosedThenClosed =>
              /\ scan.units # <<>>
              /\ \A k \in 1..Len(scan.units) : scan.units[k].code <= 14
              /\ \E k \in 1..Len(scan.units) : scan.units[k].code = 14

----------------------------------------------------------------------------
(* Claims about relationships whose target is not stored *)

\* C38: resolveDependencies called with entry ids that are all stored does
\* not throw and returns ids of stored units only, also when a required unit
\* has a relationship of frequency above 5 to an id that is not stored.
C38_ResolveSurvivesMissingTarget ==
    (loader.ids # <<>> /\ Elems(loader.ids) \subseteq DOMAIN store) =>
        /\ loader.pc # "threw"
        /\ loader.pc = "resolved" => Elems(loader.result) \subseteq DOMAIN store

----------------------------------------------------------------------------
(* Claims about the stack and the log across clearTraceLog *)

\* C36: the depth of the shared call stack is the number of traced calls that
\* have started and not completed, also after clearTraceLog ran while calls
\* that returned a promise were pending.
C36_DepthIsCallsInFlight == Len(callStack) = Cardinality(InFlight)

\* the callStart events with the id of the k-th event that come before it
StartsBefore(k) ==
    {j \in 1..(k - 1) : traceLog[j].type = "callStart" /\ traceLog[j].id = traceLog[k].id}

\* C37: every callEnd or callError event in the log comes after exactly one
\* callStart event of the same log with the same id, and that callStart was
\* written by the same invocation.
C37_EndHasItsStart ==
    \A k \in 1..Len(traceLog) :
        traceLog[k].type \in {"callEnd", "callError"} =>
            /\ Cardinality(StartsBefore(k)) = 1
            /\ \A j \in StartsBefore(k) : traceLog[j].inv = traceLog[k].inv

----------------------------------------------------------------------------
(* Claims about writers that interleave on one unit *)

\* the fields of a unit record that clusterUnits does not set
KeptByClusterer(u) == <<u.code, u.dynamicRelationships, u.metadata>>
\* the fields that updateDynamicRelationships does not set
KeptByUpdater(u) == <<u.code, u.clusterId, u.staticDependencies, u.metadata>>
\* the fields that handleApplyUpdate does not set
KeptByApply(u) == <<u.clusterId, u.dynamicRelationships, u.staticDependencies>>

\* this step is the read of a writer: each record it takes holds the other
\* writers' fields as the store has them now
ReadsAsStored ==
    /\ (clusterer.pc # "put" /\ clusterer'.pc = "put") =>
          \A k \in 1..Len(clusterer'.updatedUnits) :
             LET u == clusterer'.updatedUnits[k]
             IN KeptByClusterer(u) = KeptByClusterer(store[u.id])
    /\ \A c \in 1..Len(cycles) :
          (cycles[c].pc = "get" /\ Len(cycles'[c].updatedUnits) > Len(cycles[c].updatedUnits)) =>
             LET u == Last(cycles'[c].updatedUnits)
             IN KeptByUpdater(u) = KeptByUpdater(store[u.id])
    /\ (~Applying /\ Applying') => api'.response.unit = store[api'.request.id]

\* between its read and its write a writer's records stay as they were read,
\* whatever the other writers store
HoldsWhatItRead ==
    /\ (clusterer.pc = "put" /\ clusterer'.pc = "put") =>
          clusterer'.updatedUnits = clusterer.updatedUnits
    /\ \A c \in 1..Len(cycles) :
          (cycles[c].pc \in {"get", "put"} /\ cycles'[c].pc \in {"get", "put"}) =>
             SubSeq(cycles'[c].updatedUnits, 1, Len(cycles[c].updatedUnits))
                = cycles[c].updatedUnits
    /\ (Applying /\ Applying') => api'.response.unit = api.response.unit

\* this step is the write of a writer: the other writers' fields of every
\* record it stores are those of the record it read
WritesWhatItRead ==
    /\ (clusterer.pc = "put" /\ clusterer'.pc = "done") =>
          \A k \in 1..Len(clusterer.updatedUnits) :
             LET u == clusterer.updatedUnits[k]
             IN KeptByClusterer(store'[u.id]) = KeptByClusterer(u)
    /\ \A c \in 1..Len(cycles) :
          (cycles[c].pc = "put" /\ cycles'[c].pc = "done") =>
             \A m \in 1..Len(cycles[c].updatedUnits) :
                LET id == cycles[c].updatedUnits[m].id
                IN KeptByUpdater(store'[id])
                      = KeptByUpdater(LastCopy(cycles[c].updatedUnits, id))
    /\ (Applying /\ api'.response.settled = "resolved" /\ api'.response.value.success) =>
          KeptByApply(store'[api.request.id]) = KeptByApply(api.response.unit)

\* C35: clusterUnits, updateDynamicRelationships and applyUpdate each read a
\* whole unit record and later write the whole record back: what a writer
\* stores in the other writers' fields is what those fields held when it read
\* the record, so a change another writer stored in between is lost.
C35_LaterWriteRestoresFields ==
    [][ReadsAsStored /\ HoldsWhatItRead /\ WritesWhatItRead]_vars

\* the relationship A -> B was stored by a finished run of the updater and the
\* new code by an applied update; clusterUnits, which read A before both,
\* stored its record last, and A has its cluster, no relationship and its old code
C35_Witness ==
    /\ \E c \in 1..Len(cycles) : cycles[c].pc = "done" /\ cycles[c].written = 1
    /\ api.request.command = "applyUpdate"
    /\ api.response.settled = "resolved" /\ api.response.value.success
    /\ clusterer.pc = "done"
    /\ store["A"].clusterId # NoCluster
    /\ store["A"].dynamicRelationships = <<>>
    /\ store["A"].code = RaceStore["A"].code

=============================================================================
